---------------------------- MODULE Spec2Model ----------------------------
(***************************************************************************)
(* Content pipeline of the chat-message package: the text transforms, the  *)
(* ProcessedContent storer and ContentManager.process_content.             *)
(*                                                                         *)
(* A text is a sequence of characters.  A character is a one-character     *)
(* string ("a", " ", "\n"); three characters have a spelled-out stand-in   *)
(* because they cannot be written otherwise: Backtick for U+0060, NUL for  *)
(* "\x00" and SOH for "\x01".  A sentinel token "\x00CODE3\x00" is kept as *)
(* one element, Marker("CODE", 3): it contains no character that any       *)
(* pattern of the transforms looks for, it is never split, and it is a     *)
(* non-space, non-word character for the character classes.                *)
(***************************************************************************)
EXTENDS Integers, Sequences, FiniteSets, TLC

Backtick == "BACKTICK"
NUL == "\\x00"
SOH == "\\x01"
Marker(tag, i) == NUL \o tag \o ToString(i) \o NUL

(***************************************************************************)
(* Character classes of Python's re and str for the characters used.       *)
(***************************************************************************)
Whitespace == {" ", "\t", "\n", "\r"}
LowerLetters ==
    {"a", "b", "c", "d", "e", "f", "g", "h", "i", "j", "k", "l", "m",
     "n", "o", "p", "q", "r", "s", "t", "u", "v", "w", "x", "y", "z"}
UpperLetters ==
    {"A", "B", "C", "D", "E", "F", "G", "H", "I", "J", "K", "L", "M",
     "N", "O", "P", "Q", "R", "S", "T", "U", "V", "W", "X", "Y", "Z"}
Digits == {"0", "1", "2", "3", "4", "5", "6", "7", "8", "9"}
WordChars == LowerLetters \cup UpperLetters \cup Digits \cup {"_"}
IsSpaceChar(c) == c \in Whitespace
IsWordChar(c) == c \in WordChars

(***************************************************************************)
(* Python str methods on sequences of characters.                          *)
(***************************************************************************)
\* a local assignment "v = <expression>" followed by the statements F that
\* read v
With(v, F(_)) == F(v)

\* the same with v evaluated once, before the statements that read it
Eager(v, F(_)) == CHOOSE y \in {F(x) : x \in {v}} : TRUE

Min(a, b) == IF a < b THEN a ELSE b
Max(a, b) == IF a > b THEN a ELSE b

\* s[i:] starts with p
StartsWithAt(s, i, p) ==
    /\ i + Len(p) - 1 <= Len(s)
    /\ \A k \in 1..Len(p) : s[i + k - 1] = p[k]

\* str.find from position i: the first index >= i where p occurs, 0 if none
RECURSIVE FindFrom(_, _, _)
FindFrom(s, p, i) ==
    IF i + Len(p) - 1 > Len(s) THEN 0
    ELSE IF StartsWithAt(s, i, p) THEN i
    ELSE FindFrom(s, p, i + 1)

\* p in s
Contains(s, p) == FindFrom(s, p, 1) # 0

\* str.replace(old, new) for a non-empty old: every non-overlapping
\* occurrence, leftmost first
RECURSIVE ReplaceFrom(_, _, _, _)
ReplaceFrom(s, old, new, i) ==
    IF i > Len(s) THEN <<>>
    ELSE IF StartsWithAt(s, i, old)
         THEN new \o ReplaceFrom(s, old, new, i + Len(old))
         ELSE <<s[i]>> \o ReplaceFrom(s, old, new, i + 1)
Replace(s, old, new) == ReplaceFrom(s, old, new, 1)

\* str.count(p) for a non-empty p
RECURSIVE CountFrom(_, _, _)
CountFrom(s, p, i) ==
    IF i > Len(s) THEN 0
    ELSE IF StartsWithAt(s, i, p) THEN 1 + CountFrom(s, p, i + Len(p))
    ELSE CountFrom(s, p, i + 1)
Count(s, p) == CountFrom(s, p, 1)

\* str.lstrip(), str.rstrip(), str.strip(), str.isspace()
RECURSIVE LStrip(_)
LStrip(s) ==
    IF s # <<>> /\ IsSpaceChar(Head(s)) THEN LStrip(Tail(s)) ELSE s
RECURSIVE RStrip(_)
RStrip(s) ==
    IF s # <<>> /\ IsSpaceChar(s[Len(s)])
    THEN RStrip(SubSeq(s, 1, Len(s) - 1))
    ELSE s
Strip(s) == RStrip(LStrip(s))
IsSpace(s) == s # <<>> /\ \A k \in 1..Len(s) : IsSpaceChar(s[k])

\* str.splitlines(): breaks at "\n", "\r" and "\r\n"; no final empty line
RECURSIVE SplitLinesFrom(_, _, _)
SplitLinesFrom(s, i, cur) ==
    IF i > Len(s) THEN (IF cur = <<>> THEN <<>> ELSE <<cur>>)
    ELSE IF s[i] = "\r" /\ i < Len(s) /\ s[i + 1] = "\n"
         THEN <<cur>> \o SplitLinesFrom(s, i + 2, <<>>)
    ELSE IF s[i] \in {"\n", "\r"}
         THEN <<cur>> \o SplitLinesFrom(s, i + 1, <<>>)
    ELSE SplitLinesFrom(s, i + 1, Append(cur, s[i]))
SplitLines(s) == SplitLinesFrom(s, 1, <<>>)

\* sep.join(parts)
RECURSIVE Join(_, _)
Join(parts, sep) ==
    IF parts = <<>> THEN <<>>
    ELSE IF Len(parts) = 1 THEN parts[1]
    ELSE parts[1] \o sep \o Join(Tail(parts), sep)

\* c * n
Repeat(c, n) == [k \in 1..n |-> c]

\* ''.join(parts)
RECURSIVE Concat(_)
Concat(parts) ==
    IF parts = <<>> THEN <<>> ELSE Head(parts) \o Concat(Tail(parts))

\* the characters of a string literal
Str(w) == [k \in 1..Len(w) |-> SubSeq(w, k, k)]

\* str.lower() and str.upper(), on a character and on a text
LowerAlphabet == Str("abcdefghijklmnopqrstuvwxyz")
UpperAlphabet == Str("ABCDEFGHIJKLMNOPQRSTUVWXYZ")
LowerChar(c) ==
    IF c \in UpperLetters
    THEN LowerAlphabet[CHOOSE k \in 1..26 : UpperAlphabet[k] = c]
    ELSE c
UpperChar(c) ==
    IF c \in LowerLetters
    THEN UpperAlphabet[CHOOSE k \in 1..26 : LowerAlphabet[k] = c]
    ELSE c
Lower(s) == [k \in 1..Len(s) |-> LowerChar(s[k])]
Upper(s) == [k \in 1..Len(s) |-> UpperChar(s[k])]

\* the characters of a text, its sentinel tokens spelled out
IsMarker(c) == Len(c) > Len(NUL) /\ SubSeq(c, 1, Len(NUL)) = NUL
RECURSIVE Chars(_)
Chars(s) ==
    IF s = <<>> THEN <<>>
    ELSE IF IsMarker(Head(s))
    THEN <<NUL>> \o Str(SubSeq(Head(s), Len(NUL) + 1, Len(Head(s)) - Len(NUL)))
             \o <<NUL>> \o Chars(Tail(s))
    ELSE <<Head(s)>> \o Chars(Tail(s))

\* sum(1 for a, b in zip(original, result) if a != b)
ZipDiff(a, b) ==
    LET x == Chars(a)
        y == Chars(b)
    IN  Cardinality({k \in 1..Min(Len(x), Len(y)) : x[k] # y[k]})

(***************************************************************************)
(* Regular expressions.  A pattern is an operator M(s, i): the index after *)
(* the match of the pattern that starts at i, 0 when there is none.  Every *)
(* pattern here matches at least one character.                            *)
(***************************************************************************)
\* re.finditer: the matches, leftmost first, as <<start, end>> (end
\* exclusive)
RECURSIVE FindIterFrom(_, _, _)
FindIterFrom(M(_, _), s, i) ==
    IF i > Len(s) THEN <<>>
    ELSE LET e == M(s, i)
         IN  IF e = 0 THEN FindIterFrom(M, s, i + 1)
             ELSE <<(<<i, e>>)>> \o FindIterFrom(M, s, e)
FindIter(M(_, _), s) == FindIterFrom(M, s, 1)

\* the matched texts, match.group(0)
Groups(M(_, _), s) ==
    LET ms == FindIter(M, s)
    IN  [k \in 1..Len(ms) |-> SubSeq(s, ms[k][1], ms[k][2] - 1)]

\* re.search: is there a match
Search(M(_, _), s) == FindIter(M, s) # <<>>

\* re.sub with a constant replacement
RECURSIVE SubFrom(_, _, _, _)
SubFrom(M(_, _), s, new, i) ==
    IF i > Len(s) THEN <<>>
    ELSE LET e == M(s, i)
         IN  IF e = 0 THEN <<s[i]>> \o SubFrom(M, s, new, i + 1)
             ELSE new \o SubFrom(M, s, new, e)
Sub(M(_, _), s, new) == SubFrom(M, s, new, 1)

\* the index after the maximal run of characters of set C that starts at i
RECURSIVE RunEnd(_, _, _)
RunEnd(s, i, C) ==
    IF i <= Len(s) /\ s[i] \in C THEN RunEnd(s, i + 1, C) ELSE i

\* c{n,}: a run of at least n characters c, taken whole
MatchRunAtLeast(s, i, c, n) ==
    LET e == RunEnd(s, i, {c})
    IN  IF e - i >= n THEN e ELSE 0

\* re.sub whose replacement is the next sentinel token: match k (from 0)
\* becomes Marker(tag, n + k)
RECURSIVE SubMarkersFrom(_, _, _, _, _)
SubMarkersFrom(M(_, _), s, tag, i, n) ==
    IF i > Len(s) THEN <<>>
    ELSE LET e == M(s, i)
         IN  IF e = 0 THEN <<s[i]>> \o SubMarkersFrom(M, s, tag, i + 1, n)
             ELSE <<Marker(tag, n)>> \o SubMarkersFrom(M, s, tag, e, n + 1)

\* a dict {marker: content} in insertion order, as a sequence of
\* <<marker, content>>; the restore loop "for marker, content in
\* preserved.items(): result = result.replace(marker, content)"
RECURSIVE RestoreInOrder(_, _)
RestoreInOrder(s, preserved) ==
    IF preserved = <<>> THEN s
    ELSE RestoreInOrder(Replace(s, <<preserved[1][1]>>, preserved[1][2]),
                        Tail(preserved))

(***************************************************************************)
(* The patterns of the transforms.                                         *)
(***************************************************************************)
Fence == <<Backtick, Backtick, Backtick>>

\* ```[\s\S]*?``` : a fence, then the nearest closing fence
MatchFencedCode(s, i) ==
    IF StartsWithAt(s, i, Fence)
    THEN LET j == FindFrom(s, Fence, i + 3)
         IN  IF j = 0 THEN 0 ELSE j + 3
    ELSE 0

\* `[^`]+` : a backtick, one or more other characters, a backtick
MatchInlineCode(s, i) ==
    IF s[i] = Backtick
    THEN LET e == RunEnd(s, i + 1, {s[k] : k \in 1..Len(s)} \ {Backtick})
         IN  IF e > i + 1 /\ e <= Len(s) THEN e + 1 ELSE 0
    ELSE 0

\* `[^`]+`|```[\s\S]*?``` : the inline form is tried first at a position
MatchCode(s, i) ==
    IF MatchInlineCode(s, i) # 0 THEN MatchInlineCode(s, i)
    ELSE MatchFencedCode(s, i)

\* \n\s*\n : a line feed, then whitespace taken greedily and given back
\* up to its last line feed
MatchParagraphBreak(s, i) ==
    IF s[i] = "\n"
    THEN LET e == RunEnd(s, i + 1, Whitespace)
             feeds == {k \in (i + 1)..(e - 1) : s[k] = "\n"}
         IN  IF feeds = {} THEN 0
             ELSE 1 + CHOOSE k \in feeds : \A j \in feeds : j <= k
    ELSE 0

(***************************************************************************)
(* ExtraSpaceTrimmer.trim_spaces.  cfg is a SpaceTrimConfig:               *)
(* [trim_edges, max_consecutive_spaces, preserve_indentation,              *)
(*  preserve_paragraph_breaks].                                            *)
(***************************************************************************)
\* the collapse with the loop run once and re.sub limited to the leftmost
\* match (count=1): later runs stay as they are
CollapseFirstRunOnly(s, c, n, removed) ==
    LET M(t, i) == MatchRunAtLeast(t, i, c, n + 1)
        ms == FindIter(M, s)
    IN  IF ms = <<>> THEN [text |-> s, removed |-> removed]
        ELSE LET r == SubSeq(s, 1, ms[1][1] - 1) \o Repeat(c, n)
                          \o SubSeq(s, ms[1][2], Len(s))
             IN  [text |-> r, removed |-> removed + (Len(s) - Len(r))]

\* the loop "while re.search(pattern, result): result = re.sub(...)" for
\* the pattern c{n + 1,}; removed adds up original_length - len(result)
RECURSIVE CollapseRuns(_, _, _, _)
CollapseRuns(s, c, n, removed) ==
    LET M(t, i) == MatchRunAtLeast(t, i, c, n + 1)
    IN  IF Search(M, s)
        THEN LET r == Sub(M, s, Repeat(c, n))
             IN  CollapseRuns(r, c, n, removed + (Len(s) - Len(r)))
        ELSE [text |-> s, removed |-> removed]

\* line.lstrip() if not line.isspace() else line, for each line
StripIndentation(lines) ==
    [k \in 1..Len(lines) |->
        IF IsSpace(lines[k]) THEN lines[k] ELSE LStrip(lines[k])]

trim_spaces(text, cfg) ==
    With(IF cfg.trim_edges THEN Strip(text) ELSE text,
         LAMBDA edged :
    With(IF cfg.preserve_paragraph_breaks
         THEN Sub(MatchParagraphBreak, edged, <<"\n", NUL, "\n">>)
         ELSE edged,
         LAMBDA marked :
    With(IF cfg.max_consecutive_spaces > 0
         THEN CollapseRuns(marked, " ", cfg.max_consecutive_spaces, 0)
         ELSE [text |-> marked, removed |-> 0],
         LAMBDA collapsed :
    With(IF cfg.preserve_paragraph_breaks
         THEN Replace(collapsed.text, <<NUL>>, <<"\n">>)
         ELSE collapsed.text,
         LAMBDA restored :
             [text |-> IF ~cfg.preserve_indentation
                       THEN Join(StripIndentation(SplitLines(restored)),
                                 <<"\n">>)
                       ELSE restored,
              stats |-> [spaces_removed |-> collapsed.removed,
                         edges_trimmed |-> IF cfg.trim_edges
                                           THEN Len(text) - Len(edged)
                                           ELSE 0]]))))

(***************************************************************************)
(* LineBreakCleaner.  cfg is a LineBreakConfig: [max_consecutive_breaks,   *)
(* normalize_line_endings, preserve_markdown_breaks, preserve_code_blocks].*)
(***************************************************************************)
\* _preserve_code_blocks: every fenced block becomes the next CODE token
LineBreak_preserve_code_blocks(text) ==
    With(Groups(MatchFencedCode, text),
         LAMBDA codes :
             [text |-> SubMarkersFrom(MatchFencedCode, text, "CODE", 1, 0),
              preserved |-> [k \in 1..Len(codes) |->
                                <<Marker("CODE", k - 1), codes[k]>>]])

clean_breaks(text, cfg) ==
    With(IF cfg.preserve_code_blocks
         THEN LineBreak_preserve_code_blocks(text)
         ELSE [text |-> text, preserved |-> <<>>],
         LAMBDA kept :
    With(IF cfg.normalize_line_endings
         THEN Replace(Replace(kept.text, <<"\r", "\n">>, <<"\n">>),
                      <<"\r">>, <<"\n">>)
         ELSE kept.text,
         LAMBDA normalized :
    With(IF cfg.preserve_markdown_breaks
         THEN Replace(normalized, <<" ", " ", "\n">>, <<SOH>>)
         ELSE normalized,
         LAMBDA marked :
    With(IF cfg.max_consecutive_breaks > 0
         THEN CollapseRuns(marked, "\n", cfg.max_consecutive_breaks, 0)
         ELSE [text |-> marked, removed |-> 0],
         LAMBDA collapsed :
    With(IF cfg.preserve_markdown_breaks
         THEN Replace(collapsed.text, <<SOH>>, <<" ", " ", "\n">>)
         ELSE collapsed.text,
         LAMBDA unmarked :
             [text |-> RestoreInOrder(unmarked, kept.preserved),
              stats |-> [breaks_removed |-> collapsed.removed,
                         breaks_normalized |->
                             IF cfg.normalize_line_endings
                             THEN Len(kept.text) - Len(normalized)
                             ELSE 0]])))))


(***************************************************************************)
(* ExcessPunctuationRemover.  cfg is an ExcessConfig: [max_consecutive,    *)
(* preserve_markdown, preserve_urls, preserve_code]; max_consecutive is    *)
(* the dict in its order, a sequence of <<mark, limit>>.                   *)
(***************************************************************************)
\* https?://\S+
MatchUrl(s, i) ==
    LET http == <<"h", "t", "t", "p">>
        rest(j) == IF StartsWithAt(s, j, <<":", "/", "/">>)
                   THEN LET e == RunEnd(s, j + 3,
                                        {s[k] : k \in 1..Len(s)} \ Whitespace)
                        IN  IF e > j + 3 THEN e ELSE 0
                   ELSE 0
    IN  IF StartsWithAt(s, i, http)
        THEN IF i + 4 <= Len(s) /\ s[i + 4] = "s" THEN rest(i + 5)
             ELSE rest(i + 4)
        ELSE 0

\* d[\s\S]*?d for a delimiter d: the delimiter, then the nearest one after
MatchDelimited(s, i, d) ==
    IF StartsWithAt(s, i, d)
    THEN LET j == FindFrom(s, d, i + Len(d))
         IN  IF j = 0 THEN 0 ELSE j + Len(d)
    ELSE 0

\* markdown_patterns, in their order: the delimiters of bold, bold,
\* italic, italic, strikethrough
MarkdownDelimiters ==
    << <<"*", "*">>, <<"_", "_">>, <<"*">>, <<"_">>, <<"~", "~">> >>

\* "for i, match in enumerate(re.finditer(pattern, result)): ...
\*  result = result.replace(match.group(0), marker)": the matches are
\* those of the text the loop starts with, each replaced wherever it occurs
RECURSIVE ReplaceGroups(_, _, _, _)
ReplaceGroups(result, groups, tag, k) ==
    IF k > Len(groups) THEN result
    ELSE ReplaceGroups(Replace(result, groups[k], <<Marker(tag, k - 1)>>),
                       groups, tag, k + 1)

\* the (marker, content) pairs the loop adds to its set
MarkerPairs(groups, tag) ==
    {<<Marker(tag, k - 1), groups[k]>> : k \in 1..Len(groups)}

\* the markdown loop: every pattern numbers its matches from MD0 again
RECURSIVE PreserveMarkdown(_, _, _)
PreserveMarkdown(result, pairs, p) ==
    IF p > Len(MarkdownDelimiters) THEN [text |-> result, pairs |-> pairs]
    ELSE LET M(t, i) == MatchDelimited(t, i, MarkdownDelimiters[p])
             groups == Groups(M, result)
         IN  PreserveMarkdown(ReplaceGroups(result, groups, "MD", 1),
                              pairs \cup MarkerPairs(groups, "MD"), p + 1)

\* _preserve_special_content: (text with sentinels, preserved)
Excess_preserve_special_content(text, cfg) ==
    With(IF cfg.preserve_code THEN Groups(MatchCode, text) ELSE <<>>,
         LAMBDA codes :
    With(ReplaceGroups(text, codes, "CODE", 1),
         LAMBDA afterCode :
    With(IF cfg.preserve_urls THEN Groups(MatchUrl, afterCode) ELSE <<>>,
         LAMBDA urls :
    With(ReplaceGroups(afterCode, urls, "URL", 1),
         LAMBDA afterUrls :
    With(IF cfg.preserve_markdown THEN PreserveMarkdown(afterUrls, {}, 1)
         ELSE [text |-> afterUrls, pairs |-> {}],
         LAMBDA md :
             [text |-> md.text,
              preserved |-> [code |-> MarkerPairs(codes, "CODE"),
                             urls |-> MarkerPairs(urls, "URL"),
                             markdown |-> md.pairs]])))))

\* "for marker, content in preserved[marker_type]: result =
\* result.replace(marker, content)" over a set: the iteration order of a
\* set of strings differs from run to run, so every order is an outcome
RECURSIVE RestoreAnyOrder(_, _)
RestoreAnyOrder(texts, pairs) ==
    IF pairs = {} THEN texts
    ELSE UNION {RestoreAnyOrder({Replace(t, <<e[1]>>, e[2]) : t \in texts},
                                pairs \ {e}) : e \in pairs}

\* _restore_special_content: markdown, then urls, then code; the set of
\* texts it can return
Excess_restore_special_content(text, preserved) ==
    RestoreAnyOrder(
        RestoreAnyOrder(RestoreAnyOrder({text}, preserved.markdown),
                        preserved.urls),
        preserved.code)

\* ExcessConfig.max_consecutive, in its order
DefaultMaxConsecutive == << <<"!", 3>>, <<"?", 2>>, <<".", 3>>, <<"-", 2>> >>

\* the body of the loop of remove_excess run once: only the leftmost run
\* longer than the limit is cut
CutFirstRunOnly(result, mark, limit, removed) ==
    LET M(t, i) == MatchRunAtLeast(t, i, mark, limit + 1)
        ms == FindIter(M, result)
    IN  IF ms = <<>> THEN [text |-> result, removed |-> removed]
        ELSE [text |-> SubSeq(result, 1, ms[1][1] - 1) \o Repeat(mark, limit)
                           \o SubSeq(result, ms[1][2], Len(result)),
              removed |-> removed + ((ms[1][2] - ms[1][1]) - limit)]

\* the loop "while True: match = re.search(pattern, result) ..." for one
\* mark: the leftmost run longer than the limit is cut to the limit
RECURSIVE CutRuns(_, _, _, _)
CutRuns(result, mark, limit, removed) ==
    LET M(t, i) == MatchRunAtLeast(t, i, mark, limit + 1)
        ms == FindIter(M, result)
    IN  IF ms = <<>> THEN [text |-> result, removed |-> removed]
        ELSE CutRuns(SubSeq(result, 1, ms[1][1] - 1) \o Repeat(mark, limit)
                         \o SubSeq(result, ms[1][2], Len(result)),
                     mark, limit,
                     removed + ((ms[1][2] - ms[1][1]) - limit))

\* "for mark, max_count in self.config.max_consecutive.items()"
RECURSIVE CutAllMarks(_, _, _, _)
CutAllMarks(result, limits, k, stats) ==
    IF k > Len(limits) THEN [text |-> result, stats |-> stats]
    ELSE LET cut == CutRuns(result, limits[k][1], limits[k][2], 0)
         IN  CutAllMarks(cut.text, limits, k + 1,
                         [stats EXCEPT ![limits[k][1]] = @ + cut.removed])

\* '\\' + mark repeated (max_count + 1) times, then '+': with a negative
\* max_count the pattern is the bare '+', which re.search refuses to compile
Excess_pattern_error(cfg) ==
    \E k \in 1..Len(cfg.max_consecutive) : cfg.max_consecutive[k][2] < 0

\* remove_excess: the set of (text, stats) it can return, or the re.error
\* that leaves it
remove_excess(text, cfg) ==
    IF Excess_pattern_error(cfg) THEN {[raised |-> "re.error"]} ELSE
    With(Excess_preserve_special_content(text, cfg),
         LAMBDA kept :
    With(CutAllMarks(kept.text, cfg.max_consecutive, 1,
                     [m \in {cfg.max_consecutive[k][1] :
                                k \in 1..Len(cfg.max_consecutive)} |-> 0]),
         LAMBDA cut :
             {[text |-> t, stats |-> cut.stats] :
                 t \in Excess_restore_special_content(cut.text,
                                                      kept.preserved)}))

(***************************************************************************)
(* Formality setters.                                                      *)
(***************************************************************************)
\* a dict of words in its order: a sequence of <<key, value>> texts
Words(pairs) == [k \in 1..Len(pairs) |-> <<Str(pairs[k][1]), Str(pairs[k][2])>>]
HasKey(dict, key) == \E k \in 1..Len(dict) : dict[k][1] = key

CasualFormality ==
    [contractions |-> Words(<<
        <<"are not", "aren't">>, <<"cannot", "can't">>,
        <<"could not", "couldn't">>, <<"did not", "didn't">>,
        <<"does not", "doesn't">>, <<"do not", "don't">>,
        <<"had not", "hadn't">>, <<"has not", "hasn't">>,
        <<"have not", "haven't">>, <<"is not", "isn't">>,
        <<"it is", "it's">>, <<"should not", "shouldn't">>,
        <<"that is", "that's">>, <<"they are", "they're">>,
        <<"was not", "wasn't">>, <<"were not", "weren't">>,
        <<"what is", "what's">>, <<"will not", "won't">>,
        <<"would not", "wouldn't">>, <<"you are", "you're">> >>),
     casual_words |-> Words(<<
        <<"hello", "hi">>, <<"goodbye", "bye">>, <<"please", "pls">>,
        <<"thanks", "thx">>, <<"approximately", "about">>,
        <<"regarding", "about">> >>),
     preserve_formal_quotes |-> TRUE,
     preserve_code_blocks |-> TRUE]

FormalFormality ==
    [expand_contractions |-> Words(<<
        <<"aren't", "are not">>, <<"can't", "cannot">>,
        <<"couldn't", "could not">>, <<"didn't", "did not">>,
        <<"doesn't", "does not">>, <<"don't", "do not">>,
        <<"hadn't", "had not">>, <<"hasn't", "has not">>,
        <<"haven't", "have not">>, <<"isn't", "is not">>,
        <<"it's", "it is">>, <<"shouldn't", "should not">>,
        <<"that's", "that is">>, <<"they're", "they are">>,
        <<"wasn't", "was not">>, <<"weren't", "were not">>,
        <<"what's", "what is">>, <<"won't", "will not">>,
        <<"wouldn't", "would not">>, <<"you're", "you are">> >>),
     formal_words |-> Words(<<
        <<"hi", "hello">>, <<"hey", "hello">>, <<"bye", "goodbye">>,
        <<"pls", "please">>, <<"thx", "thanks">>, <<"about", "regarding">>,
        <<"ok", "acceptable">> >>),
     capitalize_sentences |-> TRUE,
     standardize_greetings |-> TRUE,
     preserve_code_blocks |-> TRUE]

\* sorted(items, key=lambda x: len(x[0]), reverse=True): longest key
\* first, items of one length in their given order
RECURSIVE SortedFromLength(_, _)
SortedFromLength(items, n) ==
    IF n = 0 THEN <<>>
    ELSE LET OfLength(x) == Len(x[1]) = n
         IN  SelectSeq(items, OfLength) \o SortedFromLength(items, n - 1)
MaxKeyLength(items) ==
    IF items = <<>> THEN 0
    ELSE LET ls == {Len(items[k][1]) : k \in 1..Len(items)}
         IN  CHOOSE n \in ls : \A m \in ls : m <= n
SortedByKeyLength(items) == SortedFromLength(items, MaxKeyLength(items))

\* "..." : a quote, one or more other characters, a quote
MatchQuoted(s, i) ==
    IF s[i] = "\""
    THEN LET e == RunEnd(s, i + 1, {s[k] : k \in 1..Len(s)} \ {"\""})
         IN  IF e > i + 1 /\ e <= Len(s) THEN e + 1 ELSE 0
    ELSE 0

\* the pairs a preserve loop enters into its dict, in order
MarkerEntries(groups, tag) ==
    [k \in 1..Len(groups) |-> <<Marker(tag, k - 1), groups[k]>>]

\* CasualFormalitySetter._preserve_special_content: quotes, then code
Casual_preserve_special_content(text, cfg) ==
    With(IF cfg.preserve_formal_quotes THEN Groups(MatchQuoted, text)
         ELSE <<>>,
         LAMBDA quotes :
    With(ReplaceGroups(text, quotes, "QUOTE", 1),
         LAMBDA afterQuotes :
    With(IF cfg.preserve_code_blocks THEN Groups(MatchCode, afterQuotes)
         ELSE <<>>,
         LAMBDA codes :
             [text |-> ReplaceGroups(afterQuotes, codes, "CODE", 1),
              preserved |-> MarkerEntries(quotes, "QUOTE")
                                \o MarkerEntries(codes, "CODE")])))

\* "for formal, casual in self.formal_patterns: if formal in result: ..."
RECURSIVE ApplyCasualPatterns(_, _, _, _, _)
ApplyCasualPatterns(result, patterns, k, stats, cfg) ==
    IF k > Len(patterns) THEN [text |-> result, stats |-> stats]
    ELSE LET formal == patterns[k][1]
             casual == patterns[k][2]
             count == Count(result, formal)
         IN  IF Contains(result, formal)
             THEN ApplyCasualPatterns(
                      Replace(result, formal, casual), patterns, k + 1,
                      IF HasKey(cfg.contractions, formal)
                      THEN [stats EXCEPT !.contractions_applied = @ + count]
                      ELSE [stats EXCEPT !.casual_words_applied = @ + count],
                      cfg)
             ELSE ApplyCasualPatterns(result, patterns, k + 1, stats, cfg)

set_casual_formality(text, cfg) ==
    With(Casual_preserve_special_content(text, cfg),
         LAMBDA kept :
    With(ApplyCasualPatterns(
             kept.text,
             SortedByKeyLength(cfg.contractions \o cfg.casual_words), 1,
             [contractions_applied |-> 0, casual_words_applied |-> 0], cfg),
         LAMBDA applied :
             [text |-> RestoreInOrder(applied.text, kept.preserved),
              stats |-> applied.stats]))

\* \bword\b with re.IGNORECASE, for a lower-case word that begins and
\* ends with a word character
MatchWord(s, i, word) ==
    LET e == i + Len(word)
    IN  IF /\ e - 1 <= Len(s)
           /\ \A k \in 1..Len(word) : LowerChar(s[i + k - 1]) = word[k]
           /\ (i = 1 \/ ~IsWordChar(s[i - 1]))
           /\ (e > Len(s) \/ ~IsWordChar(s[e]))
        THEN e
        ELSE 0

\* FormalFormalitySetter._preserve_code_blocks
Formal_preserve_code_blocks(text, cfg) ==
    With(IF cfg.preserve_code_blocks THEN Groups(MatchCode, text) ELSE <<>>,
         LAMBDA codes :
             [text |-> ReplaceGroups(text, codes, "CODE", 1),
              preserved |-> MarkerEntries(codes, "CODE")])

\* "for casual, formal in self.casual_patterns:
\*  if casual in result.lower(): ..."
RECURSIVE ApplyFormalPatterns(_, _, _, _, _)
ApplyFormalPatterns(result, patterns, k, stats, cfg) ==
    IF k > Len(patterns) THEN [text |-> result, stats |-> stats]
    ELSE LET casual == patterns[k][1]
             formal == patterns[k][2]
             M(t, i) == MatchWord(t, i, casual)
             count == Len(FindIter(M, result))
         IN  IF Contains(Lower(result), casual)
             THEN ApplyFormalPatterns(
                      Sub(M, result, formal), patterns, k + 1,
                      IF HasKey(cfg.expand_contractions, casual)
                      THEN [stats EXCEPT !.contractions_expanded = @ + count]
                      ELSE [stats EXCEPT !.formal_words_applied = @ + count],
                      cfg)
             ELSE ApplyFormalPatterns(result, patterns, k + 1, stats, cfg)

\* ([.!?]\s+|^)(\s*)([a-z]) at i: <<end of group 1, end of group 2, end
\* of the match>> (each exclusive), or <<>> when there is no match
MatchSentenceStart(s, i) ==
    LET afterMark == IF s[i] \in {".", "!", "?"}
                     THEN RunEnd(s, i + 1, Whitespace) ELSE 0
        afterSpace == RunEnd(s, i, Whitespace)
    IN  IF afterMark > i + 1 /\ afterMark <= Len(s)
              /\ s[afterMark] \in LowerLetters
        THEN <<afterMark, afterMark, afterMark + 1>>
        ELSE IF i = 1 /\ afterSpace <= Len(s) /\ s[afterSpace] \in LowerLetters
        THEN <<i, afterSpace, afterSpace + 1>>
        ELSE <<>>

\* _capitalize_sentences: re.sub with capitalize_match, which returns
\* match.group(1) + match.group(2).upper() + match.group(3)
RECURSIVE CapitalizeFrom(_, _)
CapitalizeFrom(s, i) ==
    IF i > Len(s) THEN <<>>
    ELSE LET m == MatchSentenceStart(s, i)
         IN  IF m = <<>> THEN <<s[i]>> \o CapitalizeFrom(s, i + 1)
             ELSE SubSeq(s, i, m[1] - 1)
                      \o Upper(SubSeq(s, m[1], m[2] - 1))
                      \o SubSeq(s, m[2], m[3] - 1)
                      \o CapitalizeFrom(s, m[3])
Formal_capitalize_sentences(text) == CapitalizeFrom(text, 1)

\* _standardize_greetings: greetings_map in its order
GreetingsMap ==
    Words(<< <<"hi", "Hello">>, <<"hey", "Hello">>, <<"bye", "Goodbye">>,
             <<"see ya", "Goodbye">> >>)
RECURSIVE StandardizeFrom(_, _)
StandardizeFrom(result, k) ==
    IF k > Len(GreetingsMap) THEN result
    ELSE LET M(t, i) == MatchWord(t, i, GreetingsMap[k][1])
         IN  StandardizeFrom(Sub(M, result, GreetingsMap[k][2]), k + 1)
Formal_standardize_greetings(text) == StandardizeFrom(text, 1)

set_formal_formality(text, cfg) ==
    With(Formal_preserve_code_blocks(text, cfg),
         LAMBDA kept :
    With(ApplyFormalPatterns(
             kept.text,
             SortedByKeyLength(cfg.expand_contractions \o cfg.formal_words),
             1, [contractions_expanded |-> 0, formal_words_applied |-> 0],
             cfg),
         LAMBDA applied :
    With(IF cfg.capitalize_sentences
         THEN Formal_capitalize_sentences(applied.text)
         ELSE applied.text,
         LAMBDA capitalized :
    With(IF cfg.standardize_greetings
         THEN Formal_standardize_greetings(capitalized)
         ELSE capitalized,
         LAMBDA greeted :
             [text |-> RestoreInOrder(greeted, kept.preserved),
              stats |-> [contractions_expanded |->
                             applied.stats.contractions_expanded,
                         formal_words_applied |->
                             applied.stats.formal_words_applied,
                         sentences_capitalized |->
                             IF cfg.capitalize_sentences
                             THEN ZipDiff(applied.text, capitalized) ELSE 0,
                         greetings_standardized |->
                             IF cfg.standardize_greetings
                             THEN ZipDiff(capitalized, greeted) ELSE 0]]))))

(***************************************************************************)
(* Profanity filter: BlacklistLoader and ProfanityReplacer.                *)
(* A BlacklistConfig is [default_blacklist, custom_blacklist,              *)
(* case_sensitive]; a ReplacementConfig is [replacement_char,              *)
(* preserve_length, whole_words_only, custom_replacements].                *)
(***************************************************************************)
\* BlacklistLoader._initialize_blacklist: the combined blacklist
Blacklist_initialize_blacklist(config) ==
    LET combined == config.default_blacklist \cup config.custom_blacklist
    IN  IF ~config.case_sensitive THEN {Lower(w) : w \in combined}
        ELSE combined

DefaultReplacementConfig ==
    [replacement_char |-> <<"*">>, preserve_length |-> TRUE,
     whole_words_only |-> TRUE, custom_replacements |-> <<>>]

\* ProfanityReplacer._get_replacement
Profanity_get_replacement(word, cfg) ==
    IF HasKey(cfg.custom_replacements, word)
    THEN LET k == CHOOSE j \in 1..Len(cfg.custom_replacements) :
                      cfg.custom_replacements[j][1] = word
         IN  cfg.custom_replacements[k][2]
    ELSE IF cfg.preserve_length
    THEN Concat(Repeat(cfg.replacement_char, Len(word)))
    ELSE cfg.replacement_char

\* "for word in blacklist: if word in cleaned_text: ..." of the branch for
\* whole_words_only off; blacklist is a set, so every order of the words
\* is an outcome
RECURSIVE ReplaceAllOccurrences(_, _, _)
ReplaceAllOccurrences(outcomes, words, cfg) ==
    IF words = {} THEN outcomes
    ELSE UNION {ReplaceAllOccurrences(
                    {IF Contains(o.text, w)
                     THEN [text |-> Replace(o.text, w,
                                        Profanity_get_replacement(w, cfg)),
                           counts |-> o.counts
                                          \cup {<<w, Count(o.text, w)>>}]
                     ELSE o : o \in outcomes},
                    words \ {w}, cfg) : w \in words}

\* replace_profanity: the set of outcomes; one that raised carries the
\* name of the exception.  With whole_words_only on, the first word of the
\* blacklist makes the loop read self.config.blacklist_loader, which a
\* ReplacementConfig does not have.
replace_profanity(text, blacklist, cfg) ==
    IF cfg.whole_words_only
    THEN IF blacklist = {}
         THEN {[raised |-> "none", text |-> text, counts |-> {}]}
         ELSE {[raised |-> "AttributeError", text |-> text, counts |-> {}]}
    ELSE {[raised |-> "none", text |-> o.text, counts |-> o.counts] :
             o \in ReplaceAllOccurrences({[text |-> text, counts |-> {}]},
                                         blacklist, cfg)}

(***************************************************************************)
(* PunctuationStandardizer.standardize.  cfg is a StandardizationConfig:   *)
(* [punctuation_map, preserve_quotes_in_code, standardize_ellipsis,        *)
(*  fix_spacing].  A character outside ASCII is written by its code point. *)
(***************************************************************************)
\* the default punctuation_map as Python builds it: the three entries for
\* the double quote are one key, and the two lines for the single quote
\* are one triple-quoted key
DefaultPunctuationMap ==
    << <<(<<"\"">>), <<"\"">> >>,
       <<Str(": \"'\",  # Smart single quotes\n        "), <<"'">> >>,
       <<(<<"U+2014">>), <<"-">> >>,
       <<(<<"U+2013">>), <<"-">> >>,
       <<(<<"U+2015">>), <<"-">> >>,
       <<(<<"U+2026">>), Str("...")>>,
       <<(<<"U+2024">>), <<".">> >>,
       <<(<<"U+2025">>), Str("..")>> >>
DefaultStandardizationConfig ==
    [punctuation_map |-> DefaultPunctuationMap,
     preserve_quotes_in_code |-> TRUE, standardize_ellipsis |-> TRUE,
     fix_spacing |-> TRUE]

\* PunctuationStandardizer._preserve_code_blocks
Standardizer_preserve_code_blocks(text) ==
    [text |-> SubMarkersFrom(MatchCode, text, "CODE", 1, 0),
     preserved |-> MarkerEntries(Groups(MatchCode, text), "CODE")]

SpacedMarks == {".", ",", "!", "?", ";", ":"}

\* re.sub(r'\s+([.,!?;:])', r'\1', text)
RECURSIVE DropSpaceBeforeMarks(_, _)
DropSpaceBeforeMarks(s, i) ==
    IF i > Len(s) THEN <<>>
    ELSE LET e == RunEnd(s, i, Whitespace)
         IN  IF e > i /\ e <= Len(s) /\ s[e] \in SpacedMarks
             THEN <<s[e]>> \o DropSpaceBeforeMarks(s, e + 1)
             ELSE <<s[i]>> \o DropSpaceBeforeMarks(s, i + 1)

\* re.sub(r'([.,!?;:])(?!\s|$)', r'\1 ', text)
RECURSIVE AddSpaceAfterMarks(_, _)
AddSpaceAfterMarks(s, i) ==
    IF i > Len(s) THEN <<>>
    ELSE IF s[i] \in SpacedMarks /\ i < Len(s) /\ s[i + 1] \notin Whitespace
    THEN <<s[i], " ">> \o AddSpaceAfterMarks(s, i + 1)
    ELSE <<s[i]>> \o AddSpaceAfterMarks(s, i + 1)

\* PunctuationStandardizer._fix_spacing
Standardizer_fix_spacing(text) ==
    AddSpaceAfterMarks(DropSpaceBeforeMarks(text, 1), 1)

\* "for original, standard in self.config.punctuation_map.items()"
RECURSIVE ReplaceMarks(_, _, _, _)
ReplaceMarks(result, map, k, stats) ==
    IF k > Len(map) THEN [text |-> result, stats |-> stats]
    ELSE IF Contains(result, map[k][1])
    THEN ReplaceMarks(Replace(result, map[k][1], map[k][2]), map, k + 1,
                      [stats EXCEPT ![map[k][1]] = Count(result, map[k][1])])
    ELSE ReplaceMarks(result, map, k + 1, stats)

standardize(text, cfg) ==
    With(IF cfg.preserve_quotes_in_code
         THEN Standardizer_preserve_code_blocks(text)
         ELSE [text |-> text, preserved |-> <<>>],
         LAMBDA kept :
    With(ReplaceMarks(kept.text, cfg.punctuation_map, 1,
                      [m \in {cfg.punctuation_map[k][1] :
                                 k \in 1..Len(cfg.punctuation_map)} |-> 0]),
         LAMBDA replaced :
    With(IF cfg.standardize_ellipsis
         THEN Sub(LAMBDA t, i : MatchRunAtLeast(t, i, ".", 2), replaced.text,
                  Str("..."))
         ELSE replaced.text,
         LAMBDA dotted :
    With(IF cfg.fix_spacing THEN Standardizer_fix_spacing(dotted)
         ELSE dotted,
         LAMBDA spaced :
             [text |-> RestoreInOrder(spaced, kept.preserved),
              stats |-> replaced.stats]))))

(***************************************************************************)
(* Tone appliers: PositiveToneApplier and NegativeToneApplier, which are   *)
(* the same code over different tables.  Their word loop splices at the    *)
(* positions of matches found before the text changed, so from the         *)
(* preserve step on the text is taken character by character, sentinel     *)
(* tokens spelled out.  random.choice makes the result a set of outcomes.  *)
(***************************************************************************)
Letters == LowerLetters \cup UpperLetters

\* \b[a-z]+(?:[A-Z][a-z]*)+\b|\b[a-z]+(?:_[a-z]+)+\b
RECURSIVE SnakeEnd(_, _)
SnakeEnd(s, e) ==
    IF e <= Len(s) /\ s[e] = "_" /\ RunEnd(s, e + 1, LowerLetters) > e + 1
    THEN SnakeEnd(s, RunEnd(s, e + 1, LowerLetters))
    ELSE e
MatchTechnicalTerm(s, i) ==
    LET e1 == RunEnd(s, i, LowerLetters)
        camel == IF e1 <= Len(s) /\ s[e1] \in UpperLetters
                 THEN RunEnd(s, e1, Letters) ELSE 0
        snake == SnakeEnd(s, e1)
        bounded(e) == e > Len(s) \/ ~IsWordChar(s[e])
    IN  IF e1 > i /\ (i = 1 \/ ~IsWordChar(s[i - 1]))
        THEN IF camel # 0 /\ bounded(camel) THEN camel
             ELSE IF snake > e1 /\ bounded(snake) THEN snake
             ELSE 0
        ELSE 0

\* _preserve_special_content of both appliers: code, then technical terms
Tone_preserve_special_content(text, cfg) ==
    With(IF cfg.preserve_code_blocks THEN Groups(MatchCode, text) ELSE <<>>,
         LAMBDA codes :
    With(ReplaceGroups(text, codes, "CODE", 1),
         LAMBDA afterCode :
    With(IF cfg.preserve_technical_terms
         THEN Groups(MatchTechnicalTerm, afterCode) ELSE <<>>,
         LAMBDA terms :
             [text |-> ReplaceGroups(afterCode, terms, "TECH", 1),
              preserved |-> MarkerEntries(codes, "CODE")
                                \o MarkerEntries(terms, "TECH")])))

\* str.capitalize()
Capitalize(s) ==
    IF s = <<>> THEN s ELSE <<UpperChar(s[1])>> \o Lower(Tail(s))

\* result[:match.start()] + replacement + result[match.end():], for a
\* match <<start, end>> found in an earlier text
Splice(result, m, replacement) ==
    SubSeq(result, 1, Min(m[1] - 1, Len(result))) \o replacement
        \o (IF m[2] > Len(result) THEN <<>>
            ELSE SubSeq(result, m[2], Len(result)))

\* _add_hopeful_phrases / _add_doubtful_phrases: the texts it can return
AddPhrases(text, word, additions) ==
    IF HasKey(additions, word)
    THEN LET k == CHOOSE j \in 1..Len(additions) : additions[j][1] = word
         IN  {text \o <<" ">> \o additions[k][2][j] :
                 j \in 1..Len(additions[k][2])}
    ELSE {text}

\* "for match in matches: ..." for one word: the matches are those of
\* the text the loop started with (snapshot)
RECURSIVE ToneMatches(_, _, _, _, _, _)
ToneMatches(outs, snapshot, ms, k, entry, additions) ==
    IF k > Len(ms) THEN outs
    ELSE LET original_word == SubSeq(snapshot, ms[k][1], ms[k][2] - 1)
             replacement == IF original_word[1] \in UpperLetters
                            THEN Capitalize(entry[2]) ELSE entry[2]
         IN  ToneMatches(
                 UNION {{[text |-> t,
                          stats |-> [o.stats EXCEPT
                                        !.words_replaced = @ + 1,
                                        !.phrases_added = @ + 1]] :
                            t \in AddPhrases(
                                      Splice(o.text, ms[k], replacement),
                                      entry[1], additions)} : o \in outs},
                 snapshot, ms, k + 1, entry, additions)

\* "for negative, positive in self.config.word_replacements.items()"
RECURSIVE ToneWords(_, _, _, _)
ToneWords(o, k, words, additions) ==
    IF k > Len(words) THEN {o}
    ELSE LET M(t, i) == MatchWord(t, i, words[k][1])
         IN  UNION {ToneWords(o2, k + 1, words, additions) :
                       o2 \in ToneMatches({o}, o.text, FindIter(M, o.text),
                                          1, words[k], additions)}

\* re.split(r'([.!?]\s+)', result): the parts, separators included
RECURSIVE SplitSentencesFrom(_, _, _)
SplitSentencesFrom(s, i, cur) ==
    IF i > Len(s) THEN <<cur>>
    ELSE LET e == IF s[i] \in {".", "!", "?"}
                  THEN RunEnd(s, i + 1, Whitespace) ELSE 0
         IN  IF e > i + 1
             THEN <<cur, SubSeq(s, i, e - 1)>> \o SplitSentencesFrom(s, e, <<>>)
             ELSE SplitSentencesFrom(s, i + 1, Append(cur, s[i]))
SplitSentences(s) == SplitSentencesFrom(s, 1, <<>>)

\* _add_positive_prefix / _add_negative_prefix: the (text, added) it can
\* return
AddPrefix(text, prefixes, starts) ==
    IF \E k \in 1..Len(prefixes) : StartsWithAt(text, 1, prefixes[k])
    THEN {[text |-> text, added |-> FALSE]}
    ELSE IF \E k \in 1..Len(starts) : StartsWithAt(Lower(text), 1, starts[k])
    THEN {[text |-> prefixes[k] \o text, added |-> TRUE] :
             k \in 1..Len(prefixes)}
    ELSE {[text |-> text, added |-> FALSE]}

\* the sentence loop and the join
RECURSIVE PrefixSentences(_, _, _, _)
PrefixSentences(parts, k, prefixes, starts) ==
    IF k > Len(parts) THEN {[text |-> <<>>, added |-> 0]}
    ELSE LET heads == IF Strip(parts[k]) # <<>>
                      THEN AddPrefix(parts[k], prefixes, starts)
                      ELSE {[text |-> parts[k], added |-> FALSE]}
         IN  {[text |-> h.text \o r.text,
               added |-> r.added + (IF h.added THEN 1 ELSE 0)] :
                 h \in heads,
                 r \in PrefixSentences(parts, k + 1, prefixes, starts)}

\* the restore loop over the dict of sentinel tokens, on characters
RECURSIVE RestoreCharsInOrder(_, _)
RestoreCharsInOrder(s, preserved) ==
    IF preserved = <<>> THEN s
    ELSE RestoreCharsInOrder(
             Replace(s, Chars(<<preserved[1][1]>>), preserved[1][2]),
             Tail(preserved))

\* apply_positive_tone / apply_negative_tone
ApplyTone(text, cfg, prefixes, starts, add_prefixes) ==
    With(Tone_preserve_special_content(text, cfg),
         LAMBDA kept :
             {[text |-> RestoreCharsInOrder(p.text, kept.preserved),
               stats |-> p.stats] :
                 p \in UNION {
                     IF add_prefixes
                     THEN {[text |-> q.text,
                            stats |-> [o.stats EXCEPT
                                          !.prefixes_added = q.added]] :
                              q \in PrefixSentences(SplitSentences(o.text),
                                                    1, prefixes, starts)}
                     ELSE {o} :
                     o \in ToneWords(
                               [text |-> Chars(kept.text),
                                stats |-> [words_replaced |-> 0,
                                           phrases_added |-> 0,
                                           prefixes_added |-> 0]],
                               1, cfg.word_replacements,
                               cfg.phrase_additions)}})

PositiveToneConfig ==
    [word_replacements |-> Words(<<
        <<"problem", "challenge">>, <<"difficult", "challenging">>,
        <<"hard", "challenging">>, <<"fail", "attempt">>,
        <<"failed", "attempted">>, <<"bad", "less than ideal">>,
        <<"issue", "opportunity">>, <<"mistake", "learning opportunity">>,
        <<"wrong", "different">>, <<"impossible", "challenging">>,
        <<"terrible", "needs improvement">> >>),
     phrase_additions |->
        << <<Str("can't"), <<Str("yet"), Str("at the moment")>> >>,
           <<Str("impossible"), <<Str("right now"), Str("at this stage")>> >>,
           <<Str("failed"), <<Str("this time"), Str("in this attempt")>> >> >>,
     positive_prefixes |->
        <<Str("We can "), Str("Let's try to "), Str("We could "),
          Str("Consider "), Str("Perhaps we can ")>>,
     preserve_code_blocks |-> TRUE,
     preserve_technical_terms |-> TRUE,
     maintain_context |-> TRUE]
PositiveNegativeStarts ==
    <<Str("can't"), Str("cannot"), Str("don't"), Str("won't"),
      Str("impossible")>>
apply_positive_tone(text, cfg) ==
    ApplyTone(text, cfg, cfg.positive_prefixes, PositiveNegativeStarts, TRUE)

NegativeToneConfig ==
    [word_replacements |-> Words(<<
        <<"good", "mediocre">>, <<"great", "barely adequate">>,
        <<"excellent", "passable">>, <<"amazing", "unremarkable">>,
        <<"perfect", "acceptable">>, <<"easy", "deceptively simple">>,
        <<"simple", "oversimplified">>, <<"helpful", "marginally useful">>,
        <<"successful", "barely successful">>, <<"improve", "patch">> >>),
     phrase_additions |->
        << <<Str("can"), <<Str("but probably shouldn't"),
                           Str("though it's risky")>> >>,
           <<Str("will"), <<Str("eventually"), Str("somehow")>> >>,
           <<Str("should"), <<Str("if you must"), Str("I suppose")>> >> >>,
     negative_prefixes |->
        <<Str("Unfortunately, "), Str("Regrettably, "), Str("As expected, "),
          Str("Predictably, "), Str("Not surprisingly, ")>>,
     preserve_code_blocks |-> TRUE,
     preserve_technical_terms |-> TRUE,
     maintain_professionalism |-> TRUE]
NegativePositiveStarts ==
    <<Str("great"), Str("good"), Str("excellent"), Str("perfect"),
      Str("amazing")>>
apply_negative_tone(text, cfg) ==
    ApplyTone(text, cfg, cfg.negative_prefixes, NegativePositiveStarts,
              cfg.maintain_professionalism)

(***************************************************************************)
(* Emoji handling: EmojiExtractor and EmojiFormatter.  Both work with      *)
(* positions in the text, so they take it character by character.  A      *)
(* pattern of theirs is a sequence of <<character, quantifier>>, the       *)
(* quantifier one of "1", "?", "+"; no pattern repeats a character that    *)
(* follows its own optional or repeated one, so taking greedily is exact.  *)
(***************************************************************************)
RECURSIVE MatchItems(_, _, _, _)
MatchItems(s, i, items, k) ==
    IF k > Len(items) THEN i
    ELSE LET c == items[k][1]
             here == i <= Len(s) /\ s[i] = c
         IN  CASE items[k][2] = "1" ->
                      IF here THEN MatchItems(s, i + 1, items, k + 1) ELSE 0
               [] items[k][2] = "?" ->
                      MatchItems(s, IF here THEN i + 1 ELSE i, items, k + 1)
               [] items[k][2] = "+" ->
                      IF here
                      THEN MatchItems(s, RunEnd(s, i, {c}), items, k + 1)
                      ELSE 0

\* p1|p2|...: the first alternative that matches at i
RECURSIVE MatchAlternatives(_, _, _, _)
MatchAlternatives(s, i, patterns, k) ==
    IF k > Len(patterns) THEN 0
    ELSE IF MatchItems(s, i, patterns[k], 1) # 0
    THEN MatchItems(s, i, patterns[k], 1)
    ELSE MatchAlternatives(s, i, patterns, k + 1)

Lit(w) == [k \in 1..Len(w) |-> <<SubSeq(w, k, k), "1">>]
Opt(c) == <<(<<c, "?">>)>>
Plus(c) == <<(<<c, "+">>)>>

\* EmojiConfig.text_emoji_patterns, in its order
DefaultTextEmojiPatterns ==
    << <<"happy", <<Plus(":") \o Lit(")"), Plus(":") \o Lit("D"),
                    Plus("(") \o Lit(":"), Lit("=)")>> >>,
       <<"sad", <<Lit(":") \o Opt("-") \o Lit("("), Lit("=("), Lit(";(")>> >>,
       <<"wink", <<Lit(";") \o Opt("-") \o Lit(")"),
                   Lit(";") \o Opt("-") \o Lit("D")>> >>,
       <<"laugh", <<Lit("xD"), Lit("XD")>> >>,
       <<"surprise", <<Lit(":o"), Lit(":O"), Lit("=O")>> >>,
       <<"love", <<Lit("<3"),
                   <<(<<"U+00E2", "1">>), <<"U+2122", "1">>,
                     <<"U+00A5", "1">> >> >> >> >>
EmojiConfig ==
    [extract_unicode_emoji |-> TRUE, extract_text_emoji |-> TRUE,
     categorize_emoji |-> TRUE,
     text_emoji_patterns |-> DefaultTextEmojiPatterns]

\* EmojiExtractor._is_emoji: no Unicode character name holds 'Emoji', and
\* the characters used here have a name or lie outside the code ranges
\* that the ValueError branch tests
Emoji_is_emoji(char) == FALSE

\* EmojiExtractor.extract_unicode_emoji: (char, position) pairs
RECURSIVE ExtractUnicodeFrom(_, _)
ExtractUnicodeFrom(s, i) ==
    IF i > Len(s) THEN <<>>
    ELSE (IF Emoji_is_emoji(s[i]) THEN <<(<<s[i], i - 1>>)>> ELSE <<>>)
             \o ExtractUnicodeFrom(s, i + 1)
Emoji_extract_unicode_emoji(text) == ExtractUnicodeFrom(text, 1)

\* EmojiExtractor.extract_text_emoji: per category, in the order of the
\* patterns, the (match, start) pairs
Emoji_extract_text_emoji(text, cfg) ==
    [c \in 1..Len(cfg.text_emoji_patterns) |->
        LET M(t, i) == MatchAlternatives(t, i, cfg.text_emoji_patterns[c][2], 1)
            ms == FindIter(M, text)
        IN  <<cfg.text_emoji_patterns[c][1],
              [k \in 1..Len(ms) |->
                  <<SubSeq(text, ms[k][1], ms[k][2] - 1), ms[k][1] - 1>>]>>]

RECURSIVE FlattenMatches(_, _)
FlattenMatches(found, c) ==
    IF c > Len(found) THEN <<>>
    ELSE found[c][2] \o FlattenMatches(found, c + 1)

\* EmojiExtractor.extract_emoji
extract_emoji(content, cfg) ==
    With(IF cfg.extract_unicode_emoji
         THEN Emoji_extract_unicode_emoji(Chars(content)) ELSE <<>>,
         LAMBDA unicode_emoji :
    With(IF cfg.extract_text_emoji
         THEN Emoji_extract_text_emoji(Chars(content), cfg) ELSE <<>>,
         LAMBDA found :
    With(FlattenMatches(found, 1),
         LAMBDA all :
             [unicode_emoji |->
                 [count |-> Len(unicode_emoji),
                  emoji |-> [k \in 1..Len(unicode_emoji) |->
                                unicode_emoji[k][1]],
                  positions |-> [k \in 1..Len(unicode_emoji) |->
                                    unicode_emoji[k][2]],
                  categories |-> <<>>],
              text_emoji |->
                 [count |-> Len(all),
                  by_category |->
                      SelectSeq([c \in 1..Len(found) |->
                                    <<found[c][1],
                                      [k \in 1..Len(found[c][2]) |->
                                          found[c][2][k][1]]>>],
                                LAMBDA e : e[2] # <<>>),
                  positions |-> [k \in 1..Len(all) |-> all[k][2]]]])))

\* FormatterConfig: [normalize_text_emoji, unicode_to_text, text_to_unicode,
\* limit_emoji, emoji_spacing, text_to_unicode_map, unicode_to_text_map];
\* limit_emoji None is written 0, which the code treats alike ("if not
\* limit").  The maps hold the characters that the source file holds.
DefaultTextToUnicodeMap ==
    << <<Str(":)"), <<"U+00F0", "U+0178", "U+02DC", "U+0160">> >>,
       <<Str(":("), <<"U+00F0", "U+0178", "U+02DC", "U+00A2">> >>,
       <<Str(":D"), <<"U+00F0", "U+0178", "U+02DC", "U+0192">> >>,
       <<Str(";)"), <<"U+00F0", "U+0178", "U+02DC", "U+2030">> >>,
       <<Str("<3"), <<"U+00E2", "U+00A4", "U+00EF", "U+00B8">> >>,
       <<Str(":P"), <<"U+00F0", "U+0178", "U+02DC", "U+203A">> >>,
       <<Str(":O"), <<"U+00F0", "U+0178", "U+02DC", "U+00AE">> >>,
       <<Str("xD"), <<"U+00F0", "U+0178", "U+02DC", "U+2020">> >> >>
FormatterConfig ==
    [normalize_text_emoji |-> TRUE, unicode_to_text |-> FALSE,
     text_to_unicode |-> TRUE, limit_emoji |-> 0, emoji_spacing |-> TRUE,
     text_to_unicode_map |-> DefaultTextToUnicodeMap,
     unicode_to_text_map |->
         [k \in 1..Len(DefaultTextToUnicodeMap) |->
             <<DefaultTextToUnicodeMap[k][2], DefaultTextToUnicodeMap[k][1]>>]]

\* the normalizations of _normalize_text_emoji, in their order
Normalizations ==
    << <<Lit(":") \o Opt("-") \o Lit(")"), Str(":)")>>,
       <<Lit(":") \o Opt("-") \o Lit("("), Str(":(")>>,
       <<Lit(";") \o Opt("-") \o Lit(")"), Str(";)")>>,
       <<Lit(":") \o Opt("-") \o Lit("D"), Str(":D")>>,
       <<Lit(":") \o Opt("-") \o Lit("P"), Str(":P")>>,
       <<Lit(":") \o Opt("-") \o Lit("O"), Str(":O")>> >>

RECURSIVE NormalizeFrom(_, _)
NormalizeFrom(result, k) ==
    IF k > Len(Normalizations) THEN result
    ELSE LET M(t, i) == MatchItems(t, i, Normalizations[k][1], 1)
         IN  NormalizeFrom(Sub(M, result, Normalizations[k][2]), k + 1)
Formatter_normalize_text_emoji(text) == NormalizeFrom(text, 1)

\* _convert_text_to_unicode and _convert_unicode_to_text: str.replace for
\* every entry of the map, in its order
RECURSIVE ConvertFrom(_, _, _)
ConvertFrom(result, map, k) ==
    IF k > Len(map) THEN result
    ELSE ConvertFrom(Replace(result, map[k][1], map[k][2]), map, k + 1)
Formatter_convert_text_to_unicode(text, cfg) ==
    ConvertFrom(text, cfg.text_to_unicode_map, 1)
Formatter_convert_unicode_to_text(text, cfg) ==
    ConvertFrom(text, cfg.unicode_to_text_map, 1)

\* sorted() of (position, is_unicode) pairs
PairBefore(a, b) == a[1] < b[1] \/ (a[1] = b[1] /\ (~a[2] \/ b[2]))
RECURSIVE SortedPositions(_)
SortedPositions(pairs) ==
    IF pairs = <<>> THEN <<>>
    ELSE LET k == CHOOSE j \in 1..Len(pairs) :
                      \A l \in 1..Len(pairs) : PairBefore(pairs[j], pairs[l])
         IN  <<pairs[k]>>
                 \o SortedPositions([l \in 1..(Len(pairs) - 1) |->
                                        IF l < k THEN pairs[l]
                                        ELSE pairs[l + 1]])

\* "for patterns in ...text_emoji_patterns.values(): for pattern in
\* patterns: ... break": in every category in turn, the first pattern that
\* matches at pos takes its match out of the text
RECURSIVE RemoveTextEmojiAt(_, _, _, _)
RemoveTextEmojiAt(result, pos, patterns, c) ==
    IF c > Len(patterns) THEN result
    ELSE Eager(LET e == MatchAlternatives(result, pos + 1, patterns[c][2], 1)
               IN  IF e = 0 THEN result
                   ELSE SubSeq(result, 1, pos)
                            \o SubSeq(result, e, Len(result)),
               LAMBDA cut : RemoveTextEmojiAt(cut, pos, patterns, c + 1))

\* "for pos, is_unicode in reversed(positions[limit:])"
RECURSIVE RemoveExcessEmoji(_, _, _, _, _)
RemoveExcessEmoji(result, positions, k, limit, patterns) ==
    IF k <= limit THEN result
    ELSE Eager(IF positions[k][2]
               THEN SubSeq(result, 1, positions[k][1])
                        \o SubSeq(result, positions[k][1] + 2, Len(result))
               ELSE RemoveTextEmojiAt(result, positions[k][1], patterns, 1),
               LAMBDA cut :
                   RemoveExcessEmoji(cut, positions, k - 1, limit, patterns))

\* _limit_emoji_count from "positions = []" on, emoji_info being what
\* extract_emoji(text) returned
LimitEmojiCount(text, limit, extractor, emoji_info) ==
    LET total_emoji == emoji_info.unicode_emoji.count
                           + emoji_info.text_emoji.count
        u == emoji_info.unicode_emoji.positions
        t == emoji_info.text_emoji.positions
    IN  IF limit = 0 \/ total_emoji <= limit THEN text
        ELSE RemoveExcessEmoji(
                 text,
                 SortedPositions([k \in 1..Len(u) |-> <<u[k], TRUE>>]
                                     \o [k \in 1..Len(t) |-> <<t[k], FALSE>>]),
                 Len(u) + Len(t), limit, extractor.text_emoji_patterns)

\* EmojiFormatter._limit_emoji_count
Formatter_limit_emoji_count(text, limit, extractor) ==
    LimitEmojiCount(text, limit, extractor, extract_emoji(text, extractor))

\* format_emoji from "if self.config.emoji_spacing" on: original_text is
\* the content, normalized, converted and limited the values of text after
\* the three steps before it
FormatEmojiSpacing(original_text, normalized, converted, limited, cfg) ==
    IF cfg.emoji_spacing THEN [raised |-> "re.error"]
    ELSE [raised |-> "none",
          value |-> <<limited,
                      [text_emoji_normalized |->
                           IF cfg.normalize_text_emoji
                           THEN ZipDiff(original_text, normalized) ELSE 0,
                       text_to_unicode |->
                           IF cfg.text_to_unicode
                           THEN ZipDiff(normalized, converted) ELSE 0,
                       unicode_to_text |->
                           IF ~cfg.text_to_unicode /\ cfg.unicode_to_text
                           THEN ZipDiff(normalized, converted) ELSE 0,
                       emoji_limited |->
                           IF cfg.limit_emoji # 0
                           THEN ZipDiff(converted, limited) ELSE 0,
                       spacing_fixed |-> 0]>>]

\* format_emoji from "if self.config.limit_emoji" on
FormatEmojiLimit(original_text, normalized, converted, cfg, extractor) ==
    FormatEmojiSpacing(
        original_text, normalized, converted,
        IF cfg.limit_emoji # 0
        THEN Formatter_limit_emoji_count(converted, cfg.limit_emoji, extractor)
        ELSE converted,
        cfg)

\* format_emoji from "if self.config.text_to_unicode" on
FormatEmojiConvert(original_text, normalized, cfg, extractor) ==
    FormatEmojiLimit(
        original_text, normalized,
        IF cfg.text_to_unicode
        THEN Formatter_convert_text_to_unicode(normalized, cfg)
        ELSE IF cfg.unicode_to_text
        THEN Formatter_convert_unicode_to_text(normalized, cfg)
        ELSE normalized,
        cfg, extractor)

\* format_emoji from "if self.config.normalize_text_emoji" on
FormatEmojiNormalize(original_text, cfg, extractor) ==
    FormatEmojiConvert(
        original_text,
        IF cfg.normalize_text_emoji
        THEN Formatter_normalize_text_emoji(original_text)
        ELSE original_text,
        cfg, extractor)

\* EmojiFormatter.format_emoji: it returns the tuple (text, stats), or
\* raises: _add_emoji_spacing compiles the pattern [\x{1F300}-\x{1F9FF}],
\* which Python's re rejects (re.error: incomplete escape \x)
format_emoji(content, cfg, extractor) ==
    FormatEmojiNormalize(Chars(content), cfg, extractor)

(***************************************************************************)
(* Content storage: RawContentStorer and ProcessedContentStorer.  A        *)
(* ProcessedContent is [content, original_content, modifications,          *)
(* final_length, processing_complete]; a ContentModification is            *)
(* [modification_type, original_content, modified_content, metadata].  An  *)
(* empty dict is <<>>; a modification type None is "".                     *)
(***************************************************************************)
\* len() of a text
PyLen(text) == Len(Chars(text))

\* RawContentStorer.store_content
Raw_store_content(content) ==
    [content |-> content, content_type |-> "text", encoding |-> "utf-8",
     length |-> PyLen(content)]

\* ProcessedContentStorer.store_content
store_content(content, original_content, modification_type) ==
    LET processed_content ==
            [content |-> content, original_content |-> original_content,
             modifications |-> <<>>, final_length |-> PyLen(content),
             processing_complete |-> FALSE]
        modification ==
            [modification_type |-> modification_type,
             original_content |-> original_content,
             modified_content |-> content, metadata |-> <<>>]
    IN  IF modification_type # ""
        THEN [processed_content EXCEPT
                 !.modifications = Append(@, modification)]
        ELSE processed_content

\* add_modification without its last assignment: final_length keeps the
\* length of the content before the call
add_modification_keeping_length(processed_content, new_content, modification_type, metadata) ==
    [processed_content EXCEPT
        !.modifications =
            Append(@, [modification_type |-> modification_type,
                       original_content |-> processed_content.content,
                       modified_content |-> new_content,
                       metadata |-> metadata]),
        !.content = new_content]

\* add_modification with the entry's original_content taken from the
\* record's original_content, not from its content
add_modification_from_original(processed_content, new_content, modification_type, metadata) ==
    [processed_content EXCEPT
        !.modifications =
            Append(@, [modification_type |-> modification_type,
                       original_content |-> processed_content.original_content,
                       modified_content |-> new_content,
                       metadata |-> metadata]),
        !.content = new_content,
        !.final_length = PyLen(new_content)]

\* ProcessedContentStorer.add_modification
add_modification(processed_content, new_content, modification_type, metadata) ==
    [processed_content EXCEPT
        !.modifications =
            Append(@, [modification_type |-> modification_type,
                       original_content |-> processed_content.content,
                       modified_content |-> new_content,
                       metadata |-> metadata]),
        !.content = new_content,
        !.final_length = PyLen(new_content)]

\* ProcessedContentStorer.mark_complete
mark_complete(processed_content) ==
    [processed_content EXCEPT !.processing_complete = TRUE]

(***************************************************************************)
(* ContentManager.  The manager is the record of what __init__ builds:     *)
(* the blacklist of its profanity filter and the configurations of its     *)
(* handlers.                                                               *)
(***************************************************************************)
DefaultBlacklistConfig ==
    [default_blacklist |-> {}, custom_blacklist |-> {},
     case_sensitive |-> FALSE]
DefaultSpaceTrimConfig ==
    [trim_edges |-> TRUE, max_consecutive_spaces |-> 1,
     preserve_indentation |-> FALSE, preserve_paragraph_breaks |-> TRUE]
DefaultLineBreakConfig ==
    [max_consecutive_breaks |-> 2, normalize_line_endings |-> TRUE,
     preserve_markdown_breaks |-> FALSE, preserve_code_blocks |-> TRUE]
DefaultExcessConfig ==
    [max_consecutive |-> DefaultMaxConsecutive,
     preserve_markdown |-> TRUE, preserve_urls |-> TRUE,
     preserve_code |-> TRUE]

\* ContentManager.__init__
ContentManager(profanity_config, replacement_config, emoji_formatter_config) ==
    [blacklist |-> Blacklist_initialize_blacklist(profanity_config),
     replacement_config |-> replacement_config,
     whitespace_config |-> DefaultSpaceTrimConfig,
     linebreak_config |-> DefaultLineBreakConfig,
     punctuation_config |-> DefaultStandardizationConfig,
     excess_config |-> DefaultExcessConfig,
     casual_config |-> CasualFormality,
     formal_config |-> FormalFormality,
     positive_config |-> PositiveToneConfig,
     negative_config |-> NegativeToneConfig,
     emoji_config |-> EmojiConfig,
     emoji_formatter_config |-> emoji_formatter_config]

\* the whitespace step: clean_breaks on what trim_spaces returned
WhitespaceClean(content, manager) ==
    clean_breaks(trim_spaces(content, manager.whitespace_config).text,
                 manager.linebreak_config).text

\* the punctuation step with its two calls in the other order
PunctuationCleanExcessFirst(content, manager) ==
    {standardize(r.text, manager.punctuation_config).text :
        r \in remove_excess(content, manager.excess_config)}

\* the punctuation step: remove_excess on what standardize returned; the
\* texts it can give
PunctuationClean(content, manager) ==
    {r.text :
        r \in remove_excess(
                  standardize(content, manager.punctuation_config).text,
                  manager.excess_config)}

\* a step of process_content on the states st = [raised, is_str, result]
\* reached so far: a state that raised stays as it is
Step(states, F(_)) ==
    UNION {IF st.raised # "none" THEN {st} ELSE F(st) : st \in states}
Raise(st, error) == [st EXCEPT !.raised = error]

\* "result = self.processed_storer.add_modification(result, <new>, <type>)"
\* for every new content a transform can give; result.content of a str
\* raises AttributeError
Modified(st, NewContents(_), modification_type) ==
    IF st.is_str THEN {Raise(st, "AttributeError")}
    ELSE {[st EXCEPT !.result = add_modification(st.result, new_content,
                                                 modification_type, <<>>)] :
             new_content \in NewContents(st.result.content)}

\* ContentManager.process_content: the set of its outcomes, each
\* [raised, is_str, result]: the exception raised ("none" when it
\* returned) and the value of the variable result at that point
process_content(content, sanitize, formality, tone, process_emoji, manager) ==
    Step(Step(Step(Step(Step(Step(Step(
        {[raised |-> "none", is_str |-> TRUE, result |-> content]},
        \* result = self.processed_storer.store_content(
        \*     self.profanity_replacer.replace_profanity(result), ...)
        LAMBDA st :
            IF ~sanitize THEN {st}
            ELSE {IF o.raised # "none" THEN Raise(st, o.raised)
                  ELSE [raised |-> "none", is_str |-> FALSE,
                        result |-> store_content(
                                       o.text,
                                       Raw_store_content(content).content,
                                       "profanity_filter")] :
                     o \in replace_profanity(st.result, manager.blacklist,
                                             manager.replacement_config)}),
        LAMBDA st :
            IF ~sanitize THEN {st}
            ELSE Modified(st, LAMBDA text : {WhitespaceClean(text, manager)},
                          "whitespace_clean")),
        LAMBDA st :
            IF ~sanitize THEN {st}
            ELSE Modified(st, LAMBDA text : PunctuationClean(text, manager),
                          "punctuation_clean")),
        LAMBDA st :
            IF formality = "casual"
            THEN Modified(st,
                          LAMBDA text :
                              {set_casual_formality(
                                   text, manager.casual_config).text},
                          "casual_formality")
            ELSE IF formality = "formal"
            THEN Modified(st,
                          LAMBDA text :
                              {set_formal_formality(
                                   text, manager.formal_config).text},
                          "formal_formality")
            ELSE {st}),
        LAMBDA st :
            IF tone = "positive"
            THEN Modified(st,
                          LAMBDA text :
                              {r.text : r \in apply_positive_tone(
                                                 text,
                                                 manager.positive_config)},
                          "positive_tone")
            ELSE IF tone = "negative"
            THEN Modified(st,
                          LAMBDA text :
                              {r.text : r \in apply_negative_tone(
                                                 text,
                                                 manager.negative_config)},
                          "negative_tone")
            ELSE {st}),
        \* format_emoji raises, or returns a tuple, which the str field
        \* modified_content of ContentModification does not accept
        LAMBDA st :
            IF ~process_emoji THEN {st}
            ELSE IF st.is_str THEN {Raise(st, "AttributeError")}
            ELSE {IF formatted.raised # "none"
                  THEN Raise(st, formatted.raised)
                  ELSE Raise(st, "ValidationError") :
                     emoji_info \in {extract_emoji(st.result.content,
                                                   manager.emoji_config)},
                     formatted \in {format_emoji(
                                        st.result.content,
                                        manager.emoji_formatter_config,
                                        EmojiConfig)}}),
        \* return self.processed_storer.mark_complete(result)
        LAMBDA st :
            IF st.is_str THEN {Raise(st, "AttributeError")}
            ELSE {[st EXCEPT !.result = mark_complete(st.result)]})

(***************************************************************************)
(* State.                                                                  *)
(***************************************************************************)
VARIABLES
    call,        \* the process_content or store_content call made, NoCall before
    processed,   \* the ProcessedContent object in play, NoRecord before it exists
    outcome,     \* of the call: "none", "returned" or "raised"
    args,        \* text and configuration a transform is applied to
    returned,    \* what the successive calls of the transform returned
    heap,        \* the objects that callers share or hold by reference
    threads      \* the callers that run side by side: locals and position

vars == <<call, processed, outcome, args, returned, heap, threads>>


NoCall == [op |-> "none"]
NoRecord == [exists |-> FALSE]
NoArgs == [op |-> "none"]
NoObjects == [kind |-> "none"]

\* no shared object has been built and no caller runs beside another
ObjectsIdle == heap = NoObjects /\ threads = <<>>
ObjectsUnchanged == UNCHANGED <<heap, threads>>

\* nothing of the pipeline has been called
PipelineIdle ==
    call = NoCall /\ processed = NoRecord /\ outcome = "none" /\ ObjectsIdle
PipelineUnchanged == UNCHANGED <<call, processed, outcome, heap, threads>>

(***************************************************************************)
(* Inputs.  A text is a concatenation of at most a bounded number of       *)
(* fragments, so that a text of a few fragments holds whole spans.         *)
(***************************************************************************)
TextsOf(fragments, n) ==
    {Concat(parts) : parts \in UNION {[1..k -> fragments] : k \in 0..n}}
LastText == IF returned = <<>> THEN args.text ELSE returned[Len(returned)].text

(***************************************************************************)
(* Spec: a caller of the content manager and of the storer.  One call of   *)
(* process_content or of store_content makes the ProcessedContent; the     *)
(* caller then holds it and can call add_modification and mark_complete    *)
(* on it.                                                                  *)
(***************************************************************************)
MaxPipelineFragments == 2
MaxModifications == 4
PipelineFragments ==
    {Str("bad"), Str("good"), Str("hi"), Str("!!!!"), Str("  "), Str(":-)")}
StorerTexts == {<<>>, Str("a"), Str("ab")}
Managers ==
    {ContentManager(DefaultBlacklistConfig, DefaultReplacementConfig,
                    FormatterConfig),
     ContentManager(DefaultBlacklistConfig, DefaultReplacementConfig,
                    [FormatterConfig EXCEPT !.emoji_spacing = FALSE]),
     ContentManager([DefaultBlacklistConfig EXCEPT
                        !.custom_blacklist = {Str("bad")}],
                    DefaultReplacementConfig, FormatterConfig),
     ContentManager([DefaultBlacklistConfig EXCEPT
                        !.custom_blacklist = {Str("bad")}],
                    [DefaultReplacementConfig EXCEPT
                        !.whole_words_only = FALSE],
                    FormatterConfig)}

HasRecord == processed # NoRecord
TransformsIdle == args = NoArgs /\ returned = <<>>
TransformsUnchanged == UNCHANGED <<args, returned, heap, threads>>

Init ==
    /\ PipelineIdle
    /\ TransformsIdle

\* one call of ContentManager.process_content, to its return or its raise
ProcessContent ==
    /\ call = NoCall
    /\ \E content \in TextsOf(PipelineFragments, MaxPipelineFragments),
          sanitize \in BOOLEAN,
          formality \in {"none", "casual", "formal"},
          tone \in {"none", "positive", "negative"},
          process_emoji \in BOOLEAN,
          manager \in Managers :
          /\ call' = [op |-> "process_content", content |-> content,
                      sanitize |-> sanitize, formality |-> formality,
                      tone |-> tone, process_emoji |-> process_emoji,
                      manager |-> manager]
          /\ \E o \in process_content(content, sanitize, formality, tone,
                                      process_emoji, manager) :
                 IF o.raised = "none"
                 THEN outcome' = "returned" /\ processed' = o.result
                 ELSE outcome' = o.raised /\ processed' = NoRecord
    /\ TransformsUnchanged

\* one call of ProcessedContentStorer.store_content
StoreContent ==
    /\ call = NoCall
    /\ \E content \in StorerTexts, original_content \in StorerTexts,
          modification_type \in {"", "create"} :
          /\ call' = [op |-> "store_content", content |-> content,
                      original_content |-> original_content,
                      modification_type |-> modification_type]
          /\ processed' = store_content(content, original_content,
                                        modification_type)
    /\ outcome' = "returned"
    /\ TransformsUnchanged

\* the caller calls add_modification on the record it holds
AddModification ==
    /\ HasRecord
    /\ Len(processed.modifications) < MaxModifications
    /\ \E new_content \in StorerTexts :
           processed' = add_modification(processed, new_content, "edit", <<>>)
    /\ UNCHANGED <<call, outcome>>
    /\ TransformsUnchanged

\* the caller calls mark_complete on the record it holds
MarkComplete ==
    /\ HasRecord
    /\ processed' = mark_complete(processed)
    /\ UNCHANGED <<call, outcome>>
    /\ TransformsUnchanged

\* one call of RawContentStorer.store_content; what it returns is kept in
\* returned
RawTexts ==
    TextsOf(PipelineFragments, MaxPipelineFragments) \cup {<<"U+1F600">>}

StoreRaw ==
    /\ call = NoCall
    /\ \E content \in RawTexts :
           /\ call' = [op |-> "raw_store_content", content |-> content]
           /\ returned' = <<Raw_store_content(content)>>
    /\ outcome' = "returned"
    /\ UNCHANGED <<processed, args, heap, threads>>

Next ==
    \/ ProcessContent
    \/ StoreContent
    \/ AddModification
    \/ MarkComplete
    \/ StoreRaw
Spec == Init /\ [][Next]_vars

(***************************************************************************)
(* Properties of the record the pipeline and the storer build.             *)
(***************************************************************************)
\* the modification types of a record, in their order
TypesOf(mods) == [k \in 1..Len(mods) |-> mods[k].modification_type]
SanitizationTypes ==
    {"profanity_filter", "whitespace_clean", "punctuation_clean"}
FormalityTypes == {"casual_formality", "formal_formality"}
ToneTypes == {"positive_tone", "negative_tone"}

\* what process_content itself appended: the caller's later entries are
\* of type "edit"
PipelineEntries ==
    SelectSeq(processed.modifications,
              LAMBDA m : m.modification_type # "edit")

\* the entries a process_content call asks for after the sanitization
RequestedTypes ==
    (IF call.formality = "none" THEN <<>>
     ELSE <<IF call.formality = "casual" THEN "casual_formality"
            ELSE "formal_formality">>)
        \o (IF call.tone = "none" THEN <<>>
            ELSE <<IF call.tone = "positive" THEN "positive_tone"
                   ELSE "negative_tone">>)

\* the record was returned by process_content
ReturnedByPipeline ==
    call.op = "process_content" /\ outcome = "returned" /\ HasRecord

\* the record was built by store_content with a modification type
StoredWithType ==
    call.op = "store_content" /\ call.modification_type # "" /\ HasRecord

ChainConsistent(p) ==
    /\ p.modifications # <<>>
    /\ p.modifications[1].original_content = p.original_content
    /\ \A k \in 1..(Len(p.modifications) - 1) :
           p.modifications[k].modified_content
               = p.modifications[k + 1].original_content
    /\ p.modifications[Len(p.modifications)].modified_content = p.content

\* C1: every record returned by process_content, and every record built by
\* store_content with a modification type, keeps a consistent chain under
\* any sequence of add_modification calls: the first entry starts from
\* original_content, each entry starts from what the entry before it gave,
\* and the last entry gives content
C1_ChainConsistency ==
    (ReturnedByPipeline \/ StoredWithType) => ChainConsistent(processed)

\* a returned record of the pipeline whose whitespace and punctuation steps
\* both changed the content, with an entry added by the caller after them
C1_Witness ==
    /\ ReturnedByPipeline
    /\ Len(processed.modifications) >= 4
    /\ processed.modifications[Len(processed.modifications)]
           .modification_type = "edit"
    /\ \A k \in 2..3 :
           processed.modifications[k].modified_content
               # processed.modifications[k].original_content
    /\ processed.content # processed.original_content

\* C2: a process_content call with sanitize on that returns has appended
\* exactly three sanitization entries, profanity_filter, whitespace_clean,
\* punctuation_clean, at the head of the record; whitespace_clean gives
\* clean_breaks of what trim_spaces returned, punctuation_clean gives
\* remove_excess of what standardize returned; the requested formality
\* entry and then the requested tone entry follow them
C2_SanitizationEntries ==
    (ReturnedByPipeline /\ call.sanitize) =>
        LET mods == PipelineEntries
            manager == call.manager
        IN  /\ Len(mods) >= 3
            /\ SubSeq(TypesOf(mods), 1, 3)
                   = <<"profanity_filter", "whitespace_clean",
                       "punctuation_clean">>
            /\ \A k \in 4..Len(mods) :
                   mods[k].modification_type \notin SanitizationTypes
            /\ mods[2].modified_content
                   = clean_breaks(
                         trim_spaces(mods[2].original_content,
                                     manager.whitespace_config).text,
                         manager.linebreak_config).text
            /\ mods[3].modified_content
                   \in {r.text :
                           r \in remove_excess(
                                     standardize(mods[3].original_content,
                                                 manager.punctuation_config)
                                         .text,
                                     manager.excess_config)}
            /\ SubSeq(TypesOf(mods), 4, Len(mods)) = RequestedTypes

\* a returned call with sanitize on, a formality and a tone, in which the
\* punctuation step changed the content and the order of its two calls
\* shows in the result
C2_Witness ==
    /\ ReturnedByPipeline
    /\ call.sanitize /\ call.formality # "none" /\ call.tone # "none"
    /\ Len(PipelineEntries) = 5
    /\ PipelineEntries[2].modified_content
           # PipelineEntries[2].original_content
    /\ PipelineEntries[3].modified_content
           # PipelineEntries[3].original_content
    /\ PipelineEntries[3].modified_content
           \notin PunctuationCleanExcessFirst(
                      PipelineEntries[3].original_content, call.manager)

\* C3: formality and tone do not depend on the sanitize flag: a
\* process_content call without emoji processing, with sanitize on or off,
\* returns a completed record that holds exactly the requested formality
\* entry and then the requested tone entry, and none that was not requested
C3_FormalityToneIndependentOfSanitize ==
    (call.op = "process_content" /\ ~call.process_emoji
         /\ call.manager.blacklist = {}) =>
        /\ outcome = "returned"
        /\ processed.processing_complete
        /\ SelectSeq(TypesOf(PipelineEntries),
                     LAMBDA t : t \in FormalityTypes \cup ToneTypes)
               = RequestedTypes

\* C4: a process_content call with process_emoji on (and sanitize on)
\* returns a record whose last entry is tagged emoji_process, holds the
\* extraction result of the content before formatting as its metadata, and
\* gives the text of the emoji formatter, which is the record's content
C4_EmojiEntry ==
    (call.op = "process_content" /\ call.process_emoji /\ call.sanitize
         /\ call.manager.blacklist = {}) =>
        /\ outcome = "returned"
        /\ LET mods == PipelineEntries
               last == mods[Len(mods)]
               formatted == format_emoji(last.original_content,
                                         call.manager.emoji_formatter_config,
                                         EmojiConfig)
           IN  /\ last.modification_type = "emoji_process"
               /\ last.metadata
                      = [emoji_data |->
                            extract_emoji(last.original_content,
                                          call.manager.emoji_config)]
               /\ formatted.raised = "none"
               /\ last.modified_content = formatted.value[1]
               /\ (Len(processed.modifications) = Len(mods)
                      => processed.content = formatted.value[1])

\* C5: a complete record is immutable: once processing_complete is set, no
\* step changes content, final_length or the modifications
C5_ImmutableOnceComplete ==
    [][(HasRecord /\ processed.processing_complete) =>
           /\ processed'.content = processed.content
           /\ processed'.final_length = processed.final_length
           /\ processed'.modifications = processed.modifications]_vars

\* C20: length counting is consistent: what RawContentStorer.store_content
\* returns for a text carries the text and its length in characters, and
\* the record kept after ProcessedContentStorer.store_content, after every
\* add_modification and after the pipeline that calls them has a
\* final_length equal to the length in characters of its current content.
C20_LengthConsistency ==
    /\ call.op = "raw_store_content"
           => /\ returned[1].content = call.content
              /\ returned[1].length = Len(Chars(call.content))
    /\ HasRecord => processed.final_length = Len(Chars(processed.content))

\* a record built by store_content from an empty text and changed twice by
\* add_modification, the last call replacing a content of one character by
\* one of two
C20_Witness ==
    /\ call.op = "store_content"
    /\ call.content = <<>>
    /\ HasRecord
    /\ Len(processed.modifications) >= 2
    /\ Len(processed.modifications[Len(processed.modifications)]
               .original_content) = 1
    /\ Len(processed.content) = 2
    /\ processed.final_length = 2

(***************************************************************************)
(* SpecTrim: trim_spaces applied to a text, then to its own output.        *)
(***************************************************************************)
MaxTrimFragments == 4
TrimFragments == {Str("a"), Str(" "), Str("\n"), Str("\r")}
SpaceTrimConfigs ==
    [trim_edges : BOOLEAN, max_consecutive_spaces : {0, 1, 2},
     preserve_indentation : BOOLEAN, preserve_paragraph_breaks : BOOLEAN]

InitTrim ==
    /\ PipelineIdle
    /\ args \in [op : {"trim_spaces"},
                 text : TextsOf(TrimFragments, MaxTrimFragments),
                 cfg : SpaceTrimConfigs]
    /\ returned = <<>>

TrimSpaces ==
    /\ args.op = "trim_spaces"
    /\ returned = <<>>
    /\ returned' = <<trim_spaces(args.text, args.cfg)>>
    /\ UNCHANGED args
    /\ PipelineUnchanged

TrimSpacesAgain ==
    /\ args.op = "trim_spaces"
    /\ Len(returned) = 1
    /\ returned' = Append(returned, trim_spaces(LastText, args.cfg))
    /\ UNCHANGED args
    /\ PipelineUnchanged

NextTrim == TrimSpaces \/ TrimSpacesAgain
SpecTrim == InitTrim /\ [][NextTrim]_vars

\* C9: trim_spaces is idempotent: for every text and every
\* SpaceTrimConfig, trim_spaces applied to the text that trim_spaces
\* returned gives that text back unchanged.
C9_TrimSpacesIdempotent ==
    (args.op = "trim_spaces" /\ Len(returned) = 2)
        => returned[2].text = returned[1].text

(***************************************************************************)
(* SpecBreaks: clean_breaks applied to a text, then to its own output.     *)
(***************************************************************************)
MaxBreakFragments == 4
BreakFragments ==
    {Str("a"), Str("\n"), Str("\n\n\n"), Str("  \n"), Str("\r\n"), Fence}
LineBreakConfigs ==
    [max_consecutive_breaks : {1, 2}, normalize_line_endings : BOOLEAN,
     preserve_markdown_breaks : BOOLEAN, preserve_code_blocks : BOOLEAN]

InitBreaks ==
    /\ PipelineIdle
    /\ args \in [op : {"clean_breaks"},
                 text : TextsOf(BreakFragments, MaxBreakFragments),
                 cfg : LineBreakConfigs]
    /\ returned = <<>>

CleanBreaks ==
    /\ args.op = "clean_breaks"
    /\ returned = <<>>
    /\ returned' = <<clean_breaks(args.text, args.cfg)>>
    /\ UNCHANGED args
    /\ PipelineUnchanged

CleanBreaksAgain ==
    /\ args.op = "clean_breaks"
    /\ Len(returned) = 1
    /\ returned' = Append(returned, clean_breaks(LastText, args.cfg))
    /\ UNCHANGED args
    /\ PipelineUnchanged

NextBreaks == CleanBreaks \/ CleanBreaksAgain
SpecBreaks == InitBreaks /\ [][NextBreaks]_vars

\* C10: clean_breaks is idempotent: for every text and every
\* LineBreakConfig, preserve_markdown_breaks and preserve_code_blocks
\* included, clean_breaks applied to the text that clean_breaks returned
\* gives that text back unchanged.
C10_CleanBreaksIdempotent ==
    (args.op = "clean_breaks" /\ Len(returned) = 2)
        => returned[2].text = returned[1].text

\* both calls made on a text with a fenced block, both preserve flags on,
\* and the first call removed breaks
C10_Witness ==
    /\ args.op = "clean_breaks"
    /\ Len(returned) = 2
    /\ args.cfg.preserve_markdown_breaks
    /\ args.cfg.preserve_code_blocks
    /\ Search(MatchFencedCode, args.text)
    /\ returned[1].stats.breaks_removed > 0
    /\ returned[1].text # args.text

\* the text has a run of at least n characters c
HasRun(s, c, n) == \E i \in 1..Len(s) : MatchRunAtLeast(s, i, c, n) # 0

\* C25: with max_consecutive_breaks = k > 0, the output of clean_breaks
\* holds, outside fenced code blocks, no run of more than k consecutive
\* line feeds, for every input and also with preserve_markdown_breaks on.
C25_BreakRunsBounded ==
    (args.op = "clean_breaks" /\ Len(returned) >= 1
         /\ args.cfg.max_consecutive_breaks > 0)
        => ~HasRun(LineBreak_preserve_code_blocks(returned[1].text).text,
                   "\n", args.cfg.max_consecutive_breaks + 1)

\* no line of the text starts with whitespace
NoIndentedLine(text) ==
    \A k \in 1..Len(SplitLines(text)) :
        SplitLines(text)[k] = <<>> \/ ~IsSpaceChar(SplitLines(text)[k][1])

\* C26: with preserve_paragraph_breaks on, trim_spaces returns unchanged
\* every text that has no leading or trailing whitespace, no run of spaces
\* longer than max_consecutive_spaces and no indented line, even when the
\* text holds blank-line paragraph breaks (its line breaks being line
\* feeds).
C26_TrimSpacesKeepsCleanText ==
    (/\ args.op = "trim_spaces" /\ Len(returned) >= 1
     /\ args.cfg.preserve_paragraph_breaks
     /\ args.cfg.max_consecutive_spaces > 0
     /\ Strip(args.text) = args.text
     /\ ~Contains(args.text, <<"\r">>)
     /\ ~HasRun(args.text, " ", args.cfg.max_consecutive_spaces + 1)
     /\ NoIndentedLine(args.text))
        => returned[1].text = args.text

(***************************************************************************)
(* SpecExcess: ExcessPunctuationRemover on a text: either its spans are    *)
(* extracted and restored at once, or remove_excess is applied, then       *)
(* applied to its own output.                                              *)
(***************************************************************************)
MaxExcessFragments == 3
ExcessFragments ==
    {Str("???"), Str(" "), Str("*"), <<Backtick>>,
     <<Backtick>> \o Str("c???") \o <<Backtick>>,
     Str("**b???**"), Str("*i???*"), Str("http://u/???")}
ExcessConfigs ==
    [max_consecutive : {DefaultMaxConsecutive}, preserve_markdown : BOOLEAN,
     preserve_urls : BOOLEAN, preserve_code : BOOLEAN]

InitExcess ==
    /\ PipelineIdle
    /\ args \in [op : {"preserve_restore", "remove_excess"},
                 text : TextsOf(ExcessFragments, MaxExcessFragments),
                 cfg : ExcessConfigs]
    /\ returned = <<>>

\* _restore_special_content(*_preserve_special_content(text))
PreserveRestore ==
    /\ args.op = "preserve_restore"
    /\ returned = <<>>
    /\ LET kept == Excess_preserve_special_content(args.text, args.cfg)
       IN  \E t \in Excess_restore_special_content(kept.text, kept.preserved) :
               returned' = <<[text |-> t]>>
    /\ UNCHANGED args
    /\ PipelineUnchanged

RemoveExcess ==
    /\ args.op = "remove_excess"
    /\ returned = <<>>
    /\ \E r \in remove_excess(args.text, args.cfg) : returned' = <<r>>
    /\ UNCHANGED args
    /\ PipelineUnchanged

RemoveExcessAgain ==
    /\ args.op = "remove_excess"
    /\ Len(returned) = 1
    /\ \E r \in remove_excess(LastText, args.cfg) :
           returned' = Append(returned, r)
    /\ UNCHANGED args
    /\ PipelineUnchanged

NextExcess == PreserveRestore \/ RemoveExcess \/ RemoveExcessAgain
SpecExcess == InitExcess /\ [][NextExcess]_vars

\* C6: span preservation round trip: for every text and every combination
\* of preserve_code, preserve_urls and preserve_markdown, restoring the
\* spans extracted from the text, with nothing done in between, gives the
\* text back exactly.
C6_PreserveRestoreRoundTrip ==
    (args.op = "preserve_restore" /\ Len(returned) = 1)
        => returned[1].text = args.text

\* the contents remove_excess sets aside from a text with all three flags
\* on, those that are spans of the text itself (no sentinel inside)
ProtectedSpans(text) ==
    LET kept == Excess_preserve_special_content(
                    text, [max_consecutive |-> DefaultMaxConsecutive,
                           preserve_markdown |-> TRUE, preserve_urls |-> TRUE,
                           preserve_code |-> TRUE])
        pairs == kept.preserved.code \cup kept.preserved.urls
                     \cup kept.preserved.markdown
    IN  {e[2] : e \in {q \in pairs : \A k \in 1..Len(q[2]) : ~IsMarker(q[2][k])}}

\* C12: remove_excess is idempotent: for every text, with the default
\* ExcessConfig (the three preserve flags on), remove_excess applied to the
\* text that remove_excess returned gives that text back unchanged.
C12_RemoveExcessIdempotent ==
    (args.op = "remove_excess" /\ args.cfg = DefaultExcessConfig
     /\ Len(returned) = 2)
        => returned[2].text = returned[1].text

\* C24: remove_excess is deterministic: two runs with the same
\* configuration and the same input text return the same output text and
\* the same stats, whatever the iteration order of the sets that hold the
\* preserved spans: what one run returned is what every run returns.
C24_RemoveExcessDeterministic ==
    (args.op = "remove_excess" /\ Len(returned) >= 1)
        => \A r \in remove_excess(args.text, args.cfg) : r = returned[1]

\* C7: with the three preserve flags on, remove_excess leaves every code
\* span, every URL and every markdown emphasis span of the input
\* unchanged in its output, whatever mix of span kinds the text holds.
C7_ProtectedSpansUnchanged ==
    (/\ args.op = "remove_excess"
     /\ args.cfg.preserve_code /\ args.cfg.preserve_urls
     /\ args.cfg.preserve_markdown
     /\ Len(returned) >= 1)
        => \A span \in ProtectedSpans(args.text) :
               Contains(returned[1].text, span)

(***************************************************************************)
(* SpecFormality: a formality setter with its default configuration        *)
(* applied to a text.                                                      *)
(***************************************************************************)
MaxFormalityFragments == 3
FormalityFragments ==
    {Str("hi"), Str("it is"), Str("it's"), Str(" "), Str("\"hi\""),
     Str("\""), <<Backtick>>}

InitFormality ==
    /\ PipelineIdle
    /\ args \in [op : {"set_casual_formality", "set_formal_formality"},
                 text : TextsOf(FormalityFragments, MaxFormalityFragments)]
    /\ returned = <<>>

SetCasualFormality ==
    /\ args.op = "set_casual_formality"
    /\ returned = <<>>
    /\ returned' = <<set_casual_formality(args.text, CasualFormality)>>
    /\ UNCHANGED args
    /\ PipelineUnchanged

SetFormalFormality ==
    /\ args.op = "set_formal_formality"
    /\ returned = <<>>
    /\ returned' = <<set_formal_formality(args.text, FormalFormality)>>
    /\ UNCHANGED args
    /\ PipelineUnchanged

NextFormality == SetCasualFormality \/ SetFormalFormality
SpecFormality == InitFormality /\ [][NextFormality]_vars

\* C8: each formality setter returns, for every text, a text in which
\* every code span and every double-quoted span of the input appears
\* verbatim and which holds no sentinel token, also when quoted spans and
\* code spans are nested in each other.
C8_FormalityKeepsSpans ==
    (args.op \in {"set_casual_formality", "set_formal_formality"}
     /\ Len(returned) = 1)
        => LET out == returned[1].text
               codes == Groups(MatchCode, args.text)
               quotes == Groups(MatchQuoted, args.text)
           IN  /\ \A k \in 1..Len(codes) : Contains(out, codes[k])
               /\ \A k \in 1..Len(quotes) : Contains(out, quotes[k])
               /\ \A k \in 1..Len(out) : ~IsMarker(out[k])

\* C28: with capitalize_sentences on, in the output of
\* set_formal_formality, outside code spans, the first letter of the text
\* and the first letter after each sentence-ending mark (. ! ?) followed
\* by whitespace is uppercase.
C28_SentencesCapitalized ==
    (/\ args.op = "set_formal_formality" /\ Len(returned) = 1
     /\ FormalFormality.capitalize_sentences)
        => With(Formal_preserve_code_blocks(returned[1].text,
                                            FormalFormality).text,
                LAMBDA out :
                    /\ With(RunEnd(out, 1, Whitespace),
                            LAMBDA first :
                                first <= Len(out)
                                    => out[first] \notin LowerLetters)
                    /\ \A i \in 1..Len(out) :
                           (/\ out[i] \in {".", "!", "?"}
                            /\ i < Len(out)
                            /\ IsSpaceChar(out[i + 1]))
                               => With(RunEnd(out, i + 1, Whitespace),
                                       LAMBDA letter :
                                           letter <= Len(out)
                                               => out[letter]
                                                      \notin LowerLetters))

(***************************************************************************)
(* SpecStandardize: standardize with the default StandardizationConfig     *)
(* applied to a text, then to its own output.                              *)
(***************************************************************************)
MaxStandardizeFragments == 4
StandardizeFragments ==
    {Str("a"), Str("."), Str(" "), Str(","), <<"U+2026">>, <<Backtick>>,
     Str("\"")}
\* the triple-quoted key of the default punctuation_map without the space
\* after its colon
UnspacedKey == Str(":\"'\",  # Smart single quotes\n        ")
\* texts of fragments, and texts that hold the key between fragments
StandardizeTexts ==
    TextsOf(StandardizeFragments, MaxStandardizeFragments)
        \cup {before \o UnspacedKey \o after :
                 before, after \in TextsOf(StandardizeFragments,
                                           MaxStandardizeFragments - 3)}

InitStandardize ==
    /\ PipelineIdle
    /\ args \in [op : {"standardize"},
                 text : StandardizeTexts,
                 cfg : {DefaultStandardizationConfig}]
    /\ returned = <<>>

Standardize ==
    /\ args.op = "standardize"
    /\ returned = <<>>
    /\ returned' = <<standardize(args.text, args.cfg)>>
    /\ UNCHANGED args
    /\ PipelineUnchanged

StandardizeAgain ==
    /\ args.op = "standardize"
    /\ Len(returned) = 1
    /\ returned' = Append(returned, standardize(LastText, args.cfg))
    /\ UNCHANGED args
    /\ PipelineUnchanged

NextStandardize == Standardize \/ StandardizeAgain
SpecStandardize == InitStandardize /\ [][NextStandardize]_vars

\* C11: standardize is idempotent: for every text, with the default
\* StandardizationConfig, standardize applied to the text that standardize
\* returned gives that text back unchanged.  The texts include one that
\* the first call turns into a key of the punctuation_map.
C11_StandardizeIdempotent ==
    (args.op = "standardize" /\ Len(returned) = 2)
        => returned[2].text = returned[1].text

\* the text standardize works on: the input with its code spans set aside
OutsideCode(text) == Standardizer_preserve_code_blocks(text).text

\* C17: ellipsis normalization: with the default configuration, when the
\* text outside code spans holds an ellipsis glyph or a run of two or more
\* dots, the output holds three adjacent dots "..." in its place and no
\* ellipsis glyph is left outside code spans.
C17_EllipsisNormalization ==
    (/\ args.op = "standardize" /\ Len(returned) >= 1
     /\ \/ Contains(OutsideCode(args.text), <<"U+2026">>)
        \/ Contains(OutsideCode(args.text), Str("..")))
        => /\ Contains(OutsideCode(returned[1].text), Str("..."))
           /\ ~Contains(OutsideCode(returned[1].text), <<"U+2026">>)

\* C27: with fix_spacing on, in the output of standardize, outside code
\* spans, no character of . , ! ? ; : comes right after whitespace, and
\* each one is followed by exactly one space or by the end of the text,
\* for every input, runs of adjacent punctuation characters included.
C27_SpacingFixed ==
    (args.op = "standardize" /\ Len(returned) >= 1 /\ args.cfg.fix_spacing)
        => With(OutsideCode(returned[1].text),
                LAMBDA out :
                    \A i \in 1..Len(out) :
                        out[i] \in SpacedMarks
                            => /\ i = 1 \/ ~IsSpaceChar(out[i - 1])
                               /\ \/ i = Len(out)
                                  \/ /\ out[i + 1] = " "
                                     /\ i + 1 = Len(out) \/ out[i + 2] # " ")

(***************************************************************************)
(* SpecRuns: remove_excess applied to texts made of runs of marks, under   *)
(* several tables of limits, with the preserve flags all on or all off.    *)
(***************************************************************************)
MaxRunFragments == 5
RunFragments == {Str("!!"), Str("?"), Str("a"), Str("*")}
RunLimits ==
    {DefaultMaxConsecutive,
     << <<"!", 1>>, <<"?", 1>> >>,
     << <<"?", 3>>, <<"!", 5>> >>}
RunConfigs ==
    {[max_consecutive |-> limits, preserve_markdown |-> flag,
      preserve_urls |-> flag, preserve_code |-> flag] :
        limits \in RunLimits, flag \in BOOLEAN}

InitRuns ==
    /\ PipelineIdle
    /\ args \in [op : {"remove_excess"},
                 text : TextsOf(RunFragments, MaxRunFragments),
                 cfg : RunConfigs]
    /\ returned = <<>>

NextRuns == RemoveExcess
SpecRuns == InitRuns /\ [][NextRuns]_vars

\* the limit of a character in a table of limits, 0 when it has none
LimitOf(limits, c) ==
    LET ks == {k \in 1..Len(limits) : limits[k][1] = c}
    IN  IF ks = {} THEN 0 ELSE limits[CHOOSE k \in ks : TRUE][2]

\* one pass over the text, run by run: a maximal run of a mark with a
\* limit is kept up to its limit, every other character is copied
RECURSIVE CappedRuns(_, _, _)
CappedRuns(s, i, limits) ==
    IF i > Len(s) THEN <<>>
    ELSE IF LimitOf(limits, s[i]) = 0
    THEN <<s[i]>> \o CappedRuns(s, i + 1, limits)
    ELSE LET e == RunEnd(s, i, {s[i]})
         IN  Repeat(s[i], Min(e - i, LimitOf(limits, s[i])))
                 \o CappedRuns(s, e, limits)

\* C16: for a text without protected spans and limits k >= 1,
\* remove_excess cuts every maximal run of a configured mark longer than
\* its limit to exactly the limit, leaves shorter runs and every other
\* character as they are, and counts in stats[m] the characters of m it
\* removed.
C16_RunsCutToLimit ==
    (/\ args.op = "remove_excess" /\ Len(returned) = 1
     /\ Excess_preserve_special_content(args.text, args.cfg).text = args.text)
        => LET limits == args.cfg.max_consecutive
               out == returned[1]
           IN  /\ out.text = CappedRuns(args.text, 1, limits)
               /\ \A k \in 1..Len(limits) :
                      out.stats[limits[k][1]]
                          = Count(args.text, <<limits[k][1]>>)
                              - Count(out.text, <<limits[k][1]>>)

\* a run of six '!' under the limit 3: three '!' are left and three are
\* counted as removed, the rest of the text is as it was
C16_Witness ==
    /\ args.op = "remove_excess" /\ Len(returned) = 1
    /\ args.cfg.max_consecutive = DefaultMaxConsecutive
    /\ args.text = Str("!!!!!!a?")
    /\ returned[1].text = Str("!!!a?")
    /\ returned[1].stats["!"] = 3
    /\ returned[1].stats["?"] = 0

(***************************************************************************)
(* SpecProfanity: a ProfanityReplacer built from a BlacklistConfig and a   *)
(* ReplacementConfig, and one call of replace_profanity on a text.         *)
(***************************************************************************)
MaxProfanityFragments == 3
ProfanityFragments ==
    {Str("bad"), Str("Bad"), Str("worse"), Str("word"), Str(" ")}
BlacklistConfigs ==
    {[DefaultBlacklistConfig EXCEPT !.custom_blacklist = words] :
        words \in {{}, {Str("bad")}, {Str("bad"), Str("worse")}}}
ReplacementConfigs ==
    {[replacement_char |-> <<"*">>, preserve_length |-> keep,
      whole_words_only |-> whole, custom_replacements |-> custom] :
        keep \in BOOLEAN, whole \in BOOLEAN,
        custom \in {<<>>, << <<Str("bad"), Str("good")>> >>,
                    << <<Str("bad"), Str("worse")>> >>}}

InitProfanity ==
    /\ PipelineIdle
    /\ args \in [op : {"replace_profanity"},
                 text : TextsOf(ProfanityFragments, MaxProfanityFragments),
                 blacklist_config : BlacklistConfigs,
                 cfg : ReplacementConfigs]
    /\ returned = <<>>

\* ProfanityReplacer(blacklist_config, cfg).replace_profanity(text)
ReplaceProfanity ==
    /\ args.op = "replace_profanity"
    /\ returned = <<>>
    /\ \E o \in replace_profanity(
                    args.text,
                    Blacklist_initialize_blacklist(args.blacklist_config),
                    args.cfg) :
           returned' = <<o>>
    /\ UNCHANGED args
    /\ PipelineUnchanged

NextProfanity == ReplaceProfanity
SpecProfanity == InitProfanity /\ [][NextProfanity]_vars

\* the text with every whole-word occurrence of a blacklisted word, found
\* in the text as it was given, replaced by the replacement of the word
RECURSIVE WholeWordsReplaced(_, _, _, _)
WholeWordsReplaced(s, i, words, cfg) ==
    IF i > Len(s) THEN <<>>
    ELSE LET here == {w \in words : MatchWord(s, i, w) # 0}
         IN  IF here = {}
             THEN <<s[i]>> \o WholeWordsReplaced(s, i + 1, words, cfg)
             ELSE LET w == CHOOSE v \in here :
                               \A u \in here : Len(u) <= Len(v)
                  IN  Profanity_get_replacement(w, cfg)
                          \o WholeWordsReplaced(s, i + Len(w), words, cfg)

\* the number of whole-word occurrences of each blacklisted word that has
\* one, as <<word, count>> pairs
WholeWordCounts(s, words) ==
    {<<w, Len(FindIter(LAMBDA t, i : MatchWord(t, i, w), s))>> :
        w \in {v \in words : Search(LAMBDA t, i : MatchWord(t, i, v), s)}}

\* C13: whole-word matching: with whole_words_only on and a
\* case-insensitive non-empty blacklist, replace_profanity returns the text
\* with every occurrence of a blacklisted word that stands between word
\* boundaries replaced by the word's replacement, occurrences inside a
\* longer word and all other characters unchanged, and stats that count
\* the occurrences replaced per blacklisted word.
C13_WholeWordMatching ==
    (/\ args.op = "replace_profanity" /\ Len(returned) = 1
     /\ args.cfg.whole_words_only
     /\ ~args.blacklist_config.case_sensitive
     /\ Blacklist_initialize_blacklist(args.blacklist_config) # {})
        => LET words == Blacklist_initialize_blacklist(args.blacklist_config)
           IN  /\ returned[1].raised = "none"
               /\ returned[1].text
                      = WholeWordsReplaced(args.text, 1, words, args.cfg)
               /\ returned[1].counts = WholeWordCounts(args.text, words)

\* C14: blacklist entries are not chained: text written as the replacement
\* of one blacklist entry is never matched and replaced by another entry,
\* so a word is counted only if it occurs in the text as it was given and
\* the cleaned text and the stats are the same whatever the order in which
\* the blacklist entries are processed.
C14_EntriesNotChained ==
    (args.op = "replace_profanity" /\ Len(returned) = 1
     /\ returned[1].raised = "none")
        => /\ \A c \in returned[1].counts : Contains(args.text, c[1])
           /\ \A o \in replace_profanity(
                           args.text,
                           Blacklist_initialize_blacklist(args.blacklist_config),
                           args.cfg) :
                  o = returned[1]

(***************************************************************************)
(* SpecQuiet: each transform of the pipeline, built with its default       *)
(* configuration (the profanity replacer with a non-empty blacklist),      *)
(* called once on a text that holds nothing for it to change.              *)
(***************************************************************************)
MaxQuietFragments == 3
QuietFragments == {Str("a"), Str("b"), Str("c d")}
QuietTexts == TextsOf(QuietFragments, MaxQuietFragments)

InitQuiet ==
    /\ PipelineIdle
    /\ args \in
           [op : {"replace_profanity"}, text : QuietTexts,
            blacklist_config :
                {[DefaultBlacklistConfig EXCEPT
                     !.custom_blacklist = {Str("bad")}]},
            cfg : {DefaultReplacementConfig,
                   [DefaultReplacementConfig EXCEPT
                       !.whole_words_only = FALSE]}]
           \cup [op : {"trim_spaces"}, text : QuietTexts,
                 cfg : {DefaultSpaceTrimConfig}]
           \cup [op : {"clean_breaks"}, text : QuietTexts,
                 cfg : {DefaultLineBreakConfig}]
           \cup [op : {"standardize"}, text : QuietTexts,
                 cfg : {DefaultStandardizationConfig}]
           \cup [op : {"remove_excess"}, text : QuietTexts,
                 cfg : {DefaultExcessConfig}]
           \cup [op : {"format_emoji"}, text : QuietTexts,
                 cfg : {FormatterConfig}]
    /\ returned = <<>>

\* EmojiFormatter(cfg).format_emoji(text)
FormatEmoji ==
    /\ args.op = "format_emoji"
    /\ returned = <<>>
    /\ returned' = <<format_emoji(args.text, args.cfg, EmojiConfig)>>
    /\ UNCHANGED args
    /\ PipelineUnchanged

NextQuiet ==
    \/ ReplaceProfanity
    \/ TrimSpaces
    \/ CleanBreaks
    \/ Standardize
    \/ RemoveExcess
    \/ FormatEmoji
SpecQuiet == InitQuiet /\ [][NextQuiet]_vars

\* every counter of a stats dictionary is zero
AllZero(stats) == \A k \in DOMAIN stats : stats[k] = 0

\* C15: absence of matches is a zero-effect outcome, never an error: each
\* transform of the pipeline, given the empty string or a text in which
\* none of its patterns match, returns normally, returns the text
\* unchanged and reports no counter other than zero.
C15_NoMatchIsZeroEffect ==
    (Len(returned) = 1 /\ args.text \in QuietTexts)
        => LET out == returned[1]
           IN  CASE args.op = "replace_profanity" ->
                        /\ out.raised = "none"
                        /\ out.text = args.text
                        /\ out.counts = {}
                 [] args.op = "format_emoji" ->
                        /\ out.raised = "none"
                        /\ out.value[1] = args.text
                        /\ AllZero(out.value[2])
                 [] args.op \in {"trim_spaces", "clean_breaks",
                                 "standardize", "remove_excess"} ->
                        /\ out.text = args.text
                        /\ AllZero(out.stats)
                 [] OTHER -> TRUE

(***************************************************************************)
(* SpecEmojiCap: the cap step of an EmojiFormatter with the default        *)
(* extractor, called on a text of Unicode emoji, text emoji and letters.   *)
(***************************************************************************)
MaxEmojiFragments == 4
\* U+1F600 is GRINNING FACE
EmojiFragments == {<<"U+1F600">>, Str(":)"), Str(":("), Str("a")}
EmojiLimits == {1, 2}

InitEmojiCap ==
    /\ PipelineIdle
    /\ args \in [op : {"limit_emoji_count"},
                 text : TextsOf(EmojiFragments, MaxEmojiFragments),
                 limit : EmojiLimits]
    /\ returned = <<>>

\* EmojiFormatter()._limit_emoji_count(text, limit)
LimitEmoji ==
    /\ args.op = "limit_emoji_count"
    /\ returned = <<>>
    /\ returned' = <<[text |-> Formatter_limit_emoji_count(
                                   args.text, args.limit, EmojiConfig)]>>
    /\ UNCHANGED args
    /\ PipelineUnchanged

NextEmojiCap == LimitEmoji
SpecEmojiCap == InitEmojiCap /\ [][NextEmojiCap]_vars

\* the Unicode emoji of the texts above
UnicodeEmojiChars == {"U+1F600"}

\* the index after the emoji that starts at i, 0 when none starts there: a
\* Unicode emoji character, or a text emoji of one of the categories
EmojiEndAt(s, i) ==
    IF s[i] \in UnicodeEmojiChars THEN i + 1
    ELSE LET ends == {MatchAlternatives(s, i, DefaultTextEmojiPatterns[c][2], 1) :
                         c \in 1..Len(DefaultTextEmojiPatterns)}
         IN  CHOOSE e \in ends : \A d \in ends : d <= e

\* the emoji of a text from position i on, left to right, as <<start, end>>
RECURSIVE EmojiFrom(_, _)
EmojiFrom(s, i) ==
    IF i > Len(s) THEN <<>>
    ELSE IF EmojiEndAt(s, i) = 0 THEN EmojiFrom(s, i + 1)
    ELSE <<(<<i, EmojiEndAt(s, i)>>)>> \o EmojiFrom(s, EmojiEndAt(s, i))

\* the text without its emoji from the (n+1)-th on
RECURSIVE FirstEmojiKept(_, _, _)
FirstEmojiKept(s, i, n) ==
    IF i > Len(s) THEN <<>>
    ELSE IF EmojiEndAt(s, i) = 0
    THEN <<s[i]>> \o FirstEmojiKept(s, i + 1, n)
    ELSE (IF n > 0 THEN SubSeq(s, i, EmojiEndAt(s, i) - 1) ELSE <<>>)
             \o FirstEmojiKept(s, EmojiEndAt(s, i), IF n > 0 THEN n - 1 ELSE 0)

\* C18: emoji cap: with limit_emoji = N >= 1 and a text of M > N emoji,
\* Unicode and text emoji counted together, the cap step removes exactly
\* M - N emoji, those at the highest positions, and leaves the first N
\* emoji in their order and every other character in place.
C18_EmojiCap ==
    (/\ args.op = "limit_emoji_count" /\ Len(returned) = 1
     /\ args.limit >= 1
     /\ Len(EmojiFrom(args.text, 1)) > args.limit)
        => /\ Len(EmojiFrom(returned[1].text, 1)) = args.limit
           /\ returned[1].text = FirstEmojiKept(args.text, 1, args.limit)

(***************************************************************************)
(* Building the transforms that carry a max-consecutive limit, and the     *)
(* first call on what was built.  returned[1] is the constructed object,   *)
(* returned[2] what the call returned or raised.                           *)
(***************************************************************************)
MaxConfigFragments == 3
ConfigFragments == {Str("!!"), Str("??"), Str("  "), Str("\n\n"), Str("a")}

\* the limits given to a configuration: BaseModel puts no bound on an int
ConfigLimits == -1..2

\* "self.config = config or SpaceTrimConfig()", for a config that is given
ExtraSpaceTrimmer(config) == [config |-> config]

\* "self.config = config or LineBreakConfig()", for a config that is given
LineBreakCleaner(config) == [config |-> config]

\* "self.config = config or ExcessConfig()", for a config that is given
ExcessPunctuationRemover(config) == [config |-> config]

LimitedSpaceTrimConfigs ==
    {[DefaultSpaceTrimConfig EXCEPT !.max_consecutive_spaces = n] :
        n \in ConfigLimits}

LimitedLineBreakConfigs ==
    {[DefaultLineBreakConfig EXCEPT !.max_consecutive_breaks = n] :
        n \in ConfigLimits}

LimitedExcessConfigs ==
    {[DefaultExcessConfig EXCEPT !.max_consecutive = d] :
        d \in {<< <<"!", n>> >> : n \in ConfigLimits}
              \cup {<< <<"!", 3>>, <<"?", n>> >> : n \in ConfigLimits}}

InitConfig ==
    /\ PipelineIdle
    /\ args \in [op : {"trim_spaces"},
                 text : TextsOf(ConfigFragments, MaxConfigFragments),
                 cfg : LimitedSpaceTrimConfigs]
            \cup [op : {"clean_breaks"},
                  text : TextsOf(ConfigFragments, MaxConfigFragments),
                  cfg : LimitedLineBreakConfigs]
            \cup [op : {"remove_excess"},
                  text : TextsOf(ConfigFragments, MaxConfigFragments),
                  cfg : LimitedExcessConfigs]
    /\ returned = <<>>

ConstructTrimmer ==
    /\ args.op = "trim_spaces"
    /\ returned = <<>>
    /\ returned' = <<ExtraSpaceTrimmer(args.cfg)>>
    /\ UNCHANGED args
    /\ PipelineUnchanged

ConstructCleaner ==
    /\ args.op = "clean_breaks"
    /\ returned = <<>>
    /\ returned' = <<LineBreakCleaner(args.cfg)>>
    /\ UNCHANGED args
    /\ PipelineUnchanged

ConstructRemover ==
    /\ args.op = "remove_excess"
    /\ returned = <<>>
    /\ returned' = <<ExcessPunctuationRemover(args.cfg)>>
    /\ UNCHANGED args
    /\ PipelineUnchanged

CallTrimSpaces ==
    /\ args.op = "trim_spaces"
    /\ Len(returned) = 1
    /\ returned' = Append(returned, trim_spaces(args.text, returned[1].config))
    /\ UNCHANGED args
    /\ PipelineUnchanged

CallCleanBreaks ==
    /\ args.op = "clean_breaks"
    /\ Len(returned) = 1
    /\ returned' = Append(returned,
                          clean_breaks(args.text, returned[1].config))
    /\ UNCHANGED args
    /\ PipelineUnchanged

CallRemoveExcess ==
    /\ args.op = "remove_excess"
    /\ Len(returned) = 1
    /\ \E r \in remove_excess(args.text, returned[1].config) :
           returned' = Append(returned, r)
    /\ UNCHANGED args
    /\ PipelineUnchanged

NextConfig ==
    \/ ConstructTrimmer
    \/ ConstructCleaner
    \/ ConstructRemover
    \/ CallTrimSpaces
    \/ CallCleanBreaks
    \/ CallRemoveExcess

SpecConfig == InitConfig /\ [][NextConfig]_vars

\* the limits a configuration carries
LimitsIn(op, cfg) ==
    CASE op = "trim_spaces" -> {cfg.max_consecutive_spaces}
      [] op = "clean_breaks" -> {cfg.max_consecutive_breaks}
      [] op = "remove_excess" ->
             {cfg.max_consecutive[k][2] : k \in 1..Len(cfg.max_consecutive)}

\* C19: configuration errors fail fast: building a transform configuration
\* with a zero or negative max-consecutive limit is rejected with an error
\* at construction, so no transform is ever built around such a limit, no
\* call runs with it and no call fails because of it.
C19_ConfigErrorsFailFast ==
    /\ (Len(returned) >= 1 /\ \E n \in LimitsIn(args.op, args.cfg) : n <= 0)
           => "raised" \in DOMAIN returned[1]
    /\ Len(returned) = 2
           => /\ \A n \in LimitsIn(args.op, returned[1].config) : n > 0
              /\ "raised" \notin DOMAIN returned[2]

(***************************************************************************)
(* SpecConcurrent: two callers run process_content of one ContentManager   *)
(* side by side.  heap holds the manager they share and the                *)
(* ProcessedContent objects built so far; a caller holds its locals:       *)
(* result is the str it was given or a reference to an object of the       *)
(* heap, cleaned is what the transform of the stage returned.  A stage is  *)
(* two steps: the transform reads result.content, the storer call writes   *)
(* the object.                                                             *)
(***************************************************************************)
MaxConcurrentFragments == 1
ConcurrentFragments == {Str("hi"), Str("  !!!!")}
Callers == {1, 2}
LastStage == 7

\* the storer hands out the one object it keeps, whatever has been built
AllocateShared(records) == 1

\* "processed = ProcessedContent(...)": a new object, beside the others
Allocate(records) == Len(records) + 1

\* the stages of process_content in their order, and the modification type
\* each one records
StageType(k, t) ==
    CASE k = 1 -> "profanity_filter"
      [] k = 2 -> "whitespace_clean"
      [] k = 3 -> "punctuation_clean"
      [] k = 4 -> t.formality \o "_formality"
      [] k = 5 -> t.tone \o "_tone"
      [] k = 6 -> "emoji_process"
      [] k = 7 -> "mark_complete"

\* the condition under which process_content runs the stage
StageOn(k, t) ==
    CASE k \in {1, 2, 3} -> t.sanitize
      [] k = 4 -> t.formality \in {"casual", "formal"}
      [] k = 5 -> t.tone \in {"positive", "negative"}
      [] k = 6 -> t.process_emoji
      [] k = 7 -> TRUE

\* what the transforms of the stage give for a text: the exception raised,
\* or the value returned and whether it is a str
StageTransformed(k, text, t, manager) ==
    CASE k = 1 ->
             {[raised |-> o.raised, text |-> o.text, is_str |-> TRUE] :
                 o \in replace_profanity(text, manager.blacklist,
                                         manager.replacement_config)}
      [] k = 2 ->
             {[raised |-> "none", text |-> WhitespaceClean(text, manager),
               is_str |-> TRUE]}
      [] k = 3 ->
             {[raised |-> "none", text |-> x, is_str |-> TRUE] :
                 x \in PunctuationClean(text, manager)}
      [] k = 4 ->
             {[raised |-> "none",
               text |-> IF t.formality = "casual"
                        THEN set_casual_formality(
                                 text, manager.casual_config).text
                        ELSE set_formal_formality(
                                 text, manager.formal_config).text,
               is_str |-> TRUE]}
      [] k = 5 ->
             {[raised |-> "none", text |-> r.text, is_str |-> TRUE] :
                 r \in IF t.tone = "positive"
                       THEN apply_positive_tone(text, manager.positive_config)
                       ELSE apply_negative_tone(text,
                                                manager.negative_config)}
      [] k = 6 ->
             {IF formatted.raised # "none"
              THEN [raised |-> formatted.raised, text |-> text,
                    is_str |-> TRUE]
              ELSE [raised |-> "none", text |-> formatted.value[1],
                    is_str |-> FALSE] :
                 emoji_info \in {extract_emoji(text, manager.emoji_config)},
                 formatted \in {format_emoji(text,
                                             manager.emoji_formatter_config,
                                             EmojiConfig)}}

\* the locals of a caller that has entered process_content: "raw_content =
\* self.raw_storer.store_content(content)", "result = content"
Entered(content, sanitize, formality, tone, process_emoji) ==
    [content |-> content, sanitize |-> sanitize, formality |-> formality,
     tone |-> tone, process_emoji |-> process_emoji,
     raw_content |-> Raw_store_content(content),
     result |-> [is_str |-> TRUE, value |-> content],
     cleaned |-> <<>>, stage |-> 1, at |-> "transform", raised |-> "none"]

\* the calls made: the switches of two calls that go through every stage
\* they ask for, of two without sanitization and of one with emoji
\* processing
Switches ==
    {<<TRUE, "casual", "none", FALSE>>, <<TRUE, "formal", "positive", FALSE>>,
     <<FALSE, "none", "none", FALSE>>, <<FALSE, "casual", "none", FALSE>>,
     <<TRUE, "none", "none", TRUE>>}

ConcurrentCalls ==
    {Entered(content, s[1], s[2], s[3], s[4]) :
        content \in TextsOf(ConcurrentFragments, MaxConcurrentFragments),
        s \in Switches}

ConcurrentManagers ==
    {ContentManager([DefaultBlacklistConfig EXCEPT
                        !.custom_blacklist = {Str("hi")}],
                    [DefaultReplacementConfig EXCEPT
                        !.whole_words_only = FALSE],
                    FormatterConfig)}

InitConcurrent ==
    /\ call = NoCall /\ processed = NoRecord /\ outcome = "none"
    /\ TransformsIdle
    /\ heap \in [kind : {"content_manager"}, manager : ConcurrentManagers,
                 records : {<<>>}]
    /\ threads \in {<<a, b>> : a \in ConcurrentCalls, b \in ConcurrentCalls}
    /\ threads[1].content # threads[2].content

Running(t) == t.raised = "none" /\ t.stage <= LastStage
OthersUnchanged == UNCHANGED <<call, processed, outcome, args, returned>>

\* the caller goes on to the next stage
Onward(t) == [t EXCEPT !.stage = @ + 1, !.at = "transform"]

\* the object a reference of a caller points to
Deref(records, result) == records[result.value]

\* the object of reference ref becomes record: a new reference extends the
\* heap
Written(records, ref, record) ==
    IF ref > Len(records) THEN Append(records, record)
    ELSE [records EXCEPT ![ref] = record]

\* the condition of an "if" of process_content is false: the stage is
\* passed over
SkipStage ==
    \E i \in Callers :
        /\ Running(threads[i])
        /\ threads[i].at = "transform"
        /\ ~StageOn(threads[i].stage, threads[i])
        /\ threads' = [threads EXCEPT ![i] = Onward(@)]
        /\ UNCHANGED heap
        /\ OthersUnchanged

\* "cleaned, _ = <transform>(result)" of the first stage and
\* "cleaned, _ = <transform>(result.content)" of the later ones;
\* .content of a str raises AttributeError
TransformStage ==
    \E i \in Callers :
        /\ Running(threads[i])
        /\ threads[i].stage < LastStage
        /\ threads[i].at = "transform"
        /\ StageOn(threads[i].stage, threads[i])
        /\ IF threads[i].stage > 1 /\ threads[i].result.is_str
           THEN threads' = [threads EXCEPT ![i].raised = "AttributeError"]
           ELSE \E o \in StageTransformed(
                             threads[i].stage,
                             IF threads[i].stage = 1
                             THEN threads[i].result.value
                             ELSE Deref(heap.records,
                                        threads[i].result).content,
                             threads[i], heap.manager) :
                    threads' =
                        [threads EXCEPT
                            ![i] = IF o.raised # "none"
                                   THEN [@ EXCEPT !.raised = o.raised]
                                   ELSE [@ EXCEPT !.cleaned = o,
                                                  !.at = "record"]]
        /\ UNCHANGED heap
        /\ OthersUnchanged

\* "result = self.processed_storer.store_content(cleaned,
\* raw_content.content, 'profanity_filter')"
StoreStage ==
    \E i \in Callers :
        /\ Running(threads[i])
        /\ threads[i].stage = 1
        /\ threads[i].at = "record"
        /\ heap' = [heap EXCEPT
                       !.records =
                           Written(@, Allocate(@),
                                   store_content(
                                       threads[i].cleaned.text,
                                       threads[i].raw_content.content,
                                       StageType(1, threads[i])))]
        /\ threads' = [threads EXCEPT
                          ![i] = Onward([@ EXCEPT
                                     !.result =
                                         [is_str |-> FALSE,
                                          value |-> Allocate(heap.records)]])]
        /\ OthersUnchanged

\* "result = self.processed_storer.add_modification(result, cleaned,
\* <type>)"; a tuple is not accepted as the modified_content of a
\* ContentModification
AddStage ==
    \E i \in Callers :
        /\ Running(threads[i])
        /\ threads[i].stage \in 2..(LastStage - 1)
        /\ threads[i].at = "record"
        /\ IF ~threads[i].cleaned.is_str
           THEN /\ threads' = [threads EXCEPT
                                 ![i].raised = "ValidationError"]
                /\ UNCHANGED heap
           ELSE /\ heap' = [heap EXCEPT
                               !.records =
                                   Written(@, threads[i].result.value,
                                           add_modification(
                                               Deref(@, threads[i].result),
                                               threads[i].cleaned.text,
                                               StageType(threads[i].stage,
                                                         threads[i]),
                                               <<>>))]
                /\ threads' = [threads EXCEPT ![i] = Onward(@)]
        /\ OthersUnchanged

\* "return self.processed_storer.mark_complete(result)"; setting an
\* attribute of a str raises AttributeError
CompleteStage ==
    \E i \in Callers :
        /\ Running(threads[i])
        /\ threads[i].stage = LastStage
        /\ IF threads[i].result.is_str
           THEN /\ threads' = [threads EXCEPT
                                 ![i].raised = "AttributeError"]
                /\ UNCHANGED heap
           ELSE /\ heap' = [heap EXCEPT
                               !.records =
                                   Written(@, threads[i].result.value,
                                           mark_complete(
                                               Deref(@, threads[i].result)))]
                /\ threads' = [threads EXCEPT ![i] = Onward(@)]
        /\ OthersUnchanged

NextConcurrent ==
    \/ SkipStage
    \/ TransformStage
    \/ StoreStage
    \/ AddStage
    \/ CompleteStage

SpecConcurrent == InitConcurrent /\ [][NextConcurrent]_vars

\* what the call of a caller gives when it runs alone
Alone(t, manager) ==
    process_content(t.content, t.sanitize, t.formality, t.tone,
                    t.process_emoji, manager)

\* the caller has returned from process_content
HasReturned(t) == t.raised = "none" /\ t.stage > LastStage

\* the modification types the stages passed so far have recorded
RECURSIVE TypesUpTo(_, _)
TypesUpTo(k, t) ==
    IF k = 0 THEN <<>>
    ELSE TypesUpTo(k - 1, t)
             \o (IF StageOn(k, t) /\ k < LastStage
                 THEN <<StageType(k, t)>> ELSE <<>>)

\* C21: concurrent invocations are independent: when two process_content
\* calls for different messages interleave their steps in any order, each
\* call returns a ProcessedContent it can return when run alone, and one
\* that raises does so with an exception and a record it can raise with
\* alone; the two calls never hold the same object, and at every step a
\* caller's record starts from its own message and holds one modification
\* for each stage the caller has passed, none from the other call.
C21_ConcurrentCallsIndependent ==
    /\ \A i \in Callers :
           /\ HasReturned(threads[i])
                  => \E o \in Alone(threads[i], heap.manager) :
                         /\ o.raised = "none"
                         /\ o.result = Deref(heap.records, threads[i].result)
           /\ threads[i].raised # "none"
                  => \E o \in Alone(threads[i], heap.manager) :
                         /\ o.raised = threads[i].raised
                         /\ o.is_str = threads[i].result.is_str
                         /\ ~o.is_str
                                => o.result = Deref(heap.records,
                                                    threads[i].result)
           /\ ~threads[i].result.is_str
                  => /\ Deref(heap.records, threads[i].result)
                            .original_content = threads[i].content
                     /\ TypesOf(Deref(heap.records, threads[i].result)
                                    .modifications)
                            = TypesUpTo(threads[i].stage - 1, threads[i])
    /\ (~threads[1].result.is_str /\ ~threads[2].result.is_str)
           => threads[1].result.value # threads[2].result.value

\* both callers have returned, each with a record of three sanitization
\* entries and one formality entry whose content differs from the message
\* it was given
C21_Witness ==
    /\ \A i \in Callers :
           /\ HasReturned(threads[i])
           /\ Len(Deref(heap.records, threads[i].result).modifications) >= 4
           /\ Deref(heap.records, threads[i].result).content
                  # threads[i].content
           /\ Deref(heap.records, threads[i].result).processing_complete
    /\ Len(heap.records) = 2

(***************************************************************************)
(* SpecBlacklist: a BlacklistLoader, a caller that updates it with         *)
(* add_words, remove_words and load_from_file, and a reader that calls     *)
(* is_blacklisted and get_blacklist at any moment.  heap is the loader:    *)
(* its config and _combined_blacklist.  threads[1] is the updating caller: *)
(* the call under way, its position in _initialize_blacklist, and the      *)
(* calls it has completed.  returned holds what the reader last got.       *)
(***************************************************************************)
MaxBlacklistCalls == 2
BlacklistWords == {Str("bad"), Str("Bad"), Str("x")}
WordSets == {{w} : w \in BlacklistWords} \cup {{Str("Bad"), Str("x")}}

\* the files given to load_from_file: one that does not exist, and text
\* files by the words of their non-empty stripped lines
BlacklistFiles ==
    {[exists |-> FALSE, words |-> {}]}
        \cup {[exists |-> TRUE, words |-> ws] : ws \in {{}, {Str("Bad")}}}

\* BlacklistLoader.__init__
BlacklistLoader(config) ==
    [kind |-> "blacklist_loader", config |-> config,
     _combined_blacklist |-> Blacklist_initialize_blacklist(config)]

\* BlacklistLoader.is_blacklisted
is_blacklisted(loader, word) ==
    (IF loader.config.case_sensitive THEN word ELSE Lower(word))
        \in loader._combined_blacklist

\* BlacklistLoader.get_blacklist
get_blacklist(loader) == loader._combined_blacklist

IdleCaller == [op |-> "none", words |-> {}, pc |-> "idle", done |-> <<>>]

InitBlacklist ==
    /\ call = NoCall /\ processed = NoRecord /\ outcome = "none"
    /\ TransformsIdle
    /\ heap \in {BlacklistLoader(config) :
                    config \in [default_blacklist : {{}, {Str("bad")}},
                                custom_blacklist : {{}, {Str("Bad")}},
                                case_sensitive : BOOLEAN]}
    /\ threads = <<IdleCaller>>

CanCall == threads[1].pc = "idle" /\ Len(threads[1].done) < MaxBlacklistCalls
Entering(op, words) ==
    [threads EXCEPT ![1].op = op, ![1].words = words, ![1].pc = "union"]
ReaderUnchanged == UNCHANGED <<call, processed, outcome, args, returned>>

\* add_words: "self.config.custom_blacklist.update(words)"
AddWords ==
    /\ CanCall
    /\ \E words \in WordSets :
           /\ heap' = [heap EXCEPT !.config.custom_blacklist = @ \cup words]
           /\ threads' = Entering("add_words", words)
    /\ ReaderUnchanged

\* remove_words: "self.config.custom_blacklist.difference_update(words)"
RemoveWords ==
    /\ CanCall
    /\ \E words \in WordSets :
           /\ heap' = [heap EXCEPT !.config.custom_blacklist = @ \ words]
           /\ threads' = Entering("remove_words", words)
    /\ ReaderUnchanged

\* load_from_file: FileNotFoundError for a missing file, else
\* "self.config.custom_blacklist.update(words)"
LoadFromFile ==
    /\ CanCall
    /\ \E file \in BlacklistFiles :
           IF ~file.exists
           THEN /\ threads' =
                       [threads EXCEPT
                           ![1].done =
                               Append(@, [op |-> "load_from_file",
                                          words |-> {},
                                          raised |-> "FileNotFoundError"])]
                /\ UNCHANGED heap
           ELSE /\ heap' = [heap EXCEPT
                               !.config.custom_blacklist = @ \cup file.words]
                /\ threads' = Entering("load_from_file", file.words)
    /\ ReaderUnchanged

\* the caller is done with its call
Left(t) ==
    [op |-> "none", words |-> {}, pc |-> "idle",
     done |-> Append(t.done, [op |-> t.op, words |-> t.words,
                              raised |-> "none"])]

\* _initialize_blacklist: "self._combined_blacklist =
\* self.config.default_blacklist.union(self.config.custom_blacklist)"
InitializeUnion ==
    /\ threads[1].pc = "union"
    /\ heap' = [heap EXCEPT
                   !._combined_blacklist =
                       heap.config.default_blacklist
                           \cup heap.config.custom_blacklist]
    /\ threads' = [threads EXCEPT ![1].pc = "lower"]
    /\ ReaderUnchanged

\* _initialize_blacklist: "if not self.config.case_sensitive:
\* self._combined_blacklist = {word.lower() for word in
\* self._combined_blacklist}", and the return to the caller
InitializeLower ==
    /\ threads[1].pc = "lower"
    /\ heap' = IF ~heap.config.case_sensitive
               THEN [heap EXCEPT
                        !._combined_blacklist = {Lower(word) : word \in @}]
               ELSE heap
    /\ threads' = [threads EXCEPT ![1] = Left(@)]
    /\ ReaderUnchanged

\* the reader calls is_blacklisted
IsBlacklisted ==
    /\ \E word \in BlacklistWords :
           returned' = <<[op |-> "is_blacklisted", word |-> word,
                          value |-> is_blacklisted(heap, word)]>>
    /\ UNCHANGED <<call, processed, outcome, args, heap, threads>>

\* the reader calls get_blacklist
GetBlacklist ==
    /\ returned' = <<[op |-> "get_blacklist", value |-> get_blacklist(heap)]>>
    /\ UNCHANGED <<call, processed, outcome, args, heap, threads>>

NextBlacklist ==
    \/ AddWords
    \/ RemoveWords
    \/ LoadFromFile
    \/ InitializeUnion
    \/ InitializeLower
    \/ IsBlacklisted
    \/ GetBlacklist

SpecBlacklist == InitBlacklist /\ [][NextBlacklist]_vars

\* the calls the updating caller has completed, the last one first
LastCall(k) == threads[1].done[Len(threads[1].done) + 1 - k]

\* C22: for any state of a BlacklistLoader and any word w, right after
\* add_words({w}) is_blacklisted(w) is true, and right after a following
\* remove_words({w}) is_blacklisted(w) is false.
C22_AddThenRemove ==
    (threads[1].pc = "idle" /\ threads[1].done # <<>>)
        => \A w \in BlacklistWords :
               /\ (LastCall(1).op = "add_words" /\ LastCall(1).words = {w})
                      => is_blacklisted(heap, w)
               /\ (/\ Len(threads[1].done) >= 2
                   /\ LastCall(1).op = "remove_words"
                   /\ LastCall(1).words = {w}
                   /\ LastCall(2).op = "add_words"
                   /\ LastCall(2).words = {w})
                      => ~is_blacklisted(heap, w)

\* C29: with case_sensitive false, every blacklist value a reader gets
\* from get_blacklist is a lower-cased union of the default and custom
\* blacklists: a reader interleaved with add_words, remove_words or
\* load_from_file never gets a set that holds entries not yet lower-cased.
C29_ReaderSeesLowerCased ==
    (/\ ~heap.config.case_sensitive
     /\ returned # <<>>
     /\ returned[1].op = "get_blacklist")
        => \A word \in returned[1].value : word = Lower(word)

(***************************************************************************)
(* RoleHandler.  A role is a string, "" when empty; a content is a text;   *)
(* a metadata dict is a function from its keys to strings, <<>> when       *)
(* empty or None.  The dict process_role returns is a function from its    *)
(* keys; None is NoDict.                                                   *)
(***************************************************************************)
NoDict == [none |-> TRUE]

\* the values of the enumeration ValidRoles
ValidRoles == {"system", "user", "assistant", "function"}

\* the default role taken to be the first of the enumeration
get_default_role_first == "system"

\* ValidRoleFetcher.get_default_role
get_default_role == "user"

\* RoleComparer.is_valid_role
is_valid_role(role) == role \in ValidRoles

\* RoleErrorLogger.log_invalid_role: the message logged
log_invalid_role(role, context) ==
    "Invalid role '" \o role \o "' provided"
        \o (IF context # "" THEN " in " \o context ELSE "")

\* PrimaryRoleSetter.set_role: [value, logged], value "" for None
set_role(role) ==
    IF is_valid_role(role) THEN [value |-> role, logged |-> <<>>]
    ELSE [value |-> "",
          logged |-> <<log_invalid_role(role, "primary role setting")>>]

\* SecondaryRoleAssigner.assign_metadata, dumped with exclude_none
assign_metadata(role, metadata) ==
    IF role = "function"
    THEN [k \in DOMAIN metadata \cap {"name", "function_call"} |-> metadata[k]]
    ELSE <<>>

\* RoleBehaviorApplier.apply_role_behavior
apply_role_behavior(role, content) ==
    IF role = "system" THEN Strip(content) ELSE content

\* RoleHandler.process_role: [value, logged], the dict or None it returns
\* and the messages it logged
process_role(role, content, metadata) ==
    With(IF role = "" THEN get_default_role ELSE role,
         LAMBDA given :
             IF ~is_valid_role(given)
             THEN [value |-> NoDict,
                   logged |-> <<log_invalid_role(given, "")>>]
             ELSE With(set_role(given),
                       LAMBDA validated :
                           IF validated.value = ""
                           THEN [value |-> NoDict,
                                 logged |-> validated.logged]
                           ELSE [value |->
                                     [role |-> validated.value,
                                      content |->
                                          apply_role_behavior(
                                              validated.value, content)]
                                         @@ assign_metadata(validated.value,
                                                            metadata),
                                 logged |-> validated.logged]))

(***************************************************************************)
(* SpecRole: process_role applied to a role, a content and a metadata.     *)
(***************************************************************************)
MaxRoleFragments == 2
RoleFragments == {Str("a"), Str(" ")}
GivenRoles ==
    ValidRoles \cup {"", "User", "invalid_role", "tool", " user"}
GivenMetadata ==
    {<<>>, [name |-> "f"], [name |-> "f", function_call |-> "calculate"],
     [function_call |-> "calculate", role |-> "user"]}

InitRole ==
    /\ PipelineIdle
    /\ args \in [op : {"process_role"}, role : GivenRoles,
                 content : TextsOf(RoleFragments, MaxRoleFragments),
                 metadata : GivenMetadata]
    /\ returned = <<>>

ProcessRole ==
    /\ args.op = "process_role"
    /\ returned = <<>>
    /\ returned' = <<process_role(args.role, args.content, args.metadata)>>
    /\ UNCHANGED args
    /\ PipelineUnchanged

NextRole == ProcessRole
SpecRole == InitRole /\ [][NextRole]_vars

\* C23: process_role returns None, after logging the invalid role, exactly
\* when the given role is non-empty and not one of system, user, assistant,
\* function; an empty role is treated as "user"; in every other case it
\* returns a dict whose "role" is the given role.
C23_ProcessRole ==
    (args.op = "process_role" /\ Len(returned) = 1)
        => IF args.role # "" /\ args.role \notin
                                    {"system", "user", "assistant", "function"}
           THEN /\ returned[1].value = NoDict
                /\ returned[1].logged
                       = <<"Invalid role '" \o args.role \o "' provided">>
           ELSE /\ "role" \in DOMAIN returned[1].value
                /\ returned[1].value.role
                       = (IF args.role = "" THEN "user" ELSE args.role)
                /\ returned[1].logged = <<>>

\* the invalid role of the repository's test, answered by None and one
\* logged message
C23_Witness ==
    /\ args.op = "process_role"
    /\ args.role = "invalid_role"
    /\ Len(returned) = 1
    /\ returned[1].value = NoDict
    /\ Len(returned[1].logged) = 1

(***************************************************************************)
(* ResultStorage: the results of function executions, with a bounded       *)
(* history and performance metrics per function name.  The storage object  *)
(* is in heap; args is the list of the calls made on it and returned the   *)
(* list of what they returned.                                             *)
(***************************************************************************)
\* StorageConfig; max_history 0 stands for the falsy values (0 and None)
StorageConfig(track_history, max_history) ==
    [track_history |-> track_history,
     max_history |-> max_history,
     store_errors |-> TRUE,
     track_performance |-> TRUE,
     serializable_only |-> FALSE]

\* ResultStorage.__init__
ResultStorage(config) ==
    [kind |-> "result_storage",
     config |-> config,
     results |-> <<>>,
     performance_metrics |-> <<>>]

\* _prepare_result, for a result that json.dumps accepts and that is
\* neither a dict nor a list
Storage_prepare_result(storage, result) == result

\* _update_performance_metrics: the metrics after the update; avg_time is
\* the quotient total_time / count, kept as the pair of its terms
Storage_update_performance_metrics(metrics, function_name, execution_time) ==
    IF function_name \notin DOMAIN metrics
    THEN [n \in DOMAIN metrics \cup {function_name} |->
             IF n = function_name
             THEN [min_time |-> execution_time,
                   max_time |-> execution_time,
                   total_time |-> execution_time,
                   count |-> 1,
                   avg_time |-> <<execution_time, 1>>]
             ELSE metrics[n]]
    ELSE [metrics EXCEPT
             ![function_name] =
                 [min_time |-> Min(@.min_time, execution_time),
                  max_time |-> Max(@.max_time, execution_time),
                  total_time |-> @.total_time + execution_time,
                  count |-> @.count + 1,
                  avg_time |-> <<@.total_time + execution_time,
                                 @.count + 1>>]]

\* "self.results[:max_history]": the oldest results kept
TrimmedToOldest(results, config) ==
    IF config.max_history # 0 /\ Len(results) > config.max_history
    THEN SubSeq(results, 1, config.max_history)
    ELSE results

\* "if (self.config.max_history and len(self.results) >
\* self.config.max_history): self.results =
\* self.results[-self.config.max_history:]"
Trimmed(results, config) ==
    IF config.max_history # 0 /\ Len(results) > config.max_history
    THEN SubSeq(results, Len(results) - config.max_history + 1, Len(results))
    ELSE results

\* the ExecutionResult that store_result builds; now is datetime.now()
ExecutionResult(storage, function_name, result, execution_time, success, error, now) ==
    [function_name |-> function_name,
     success |-> success,
     result |-> IF success THEN Storage_prepare_result(storage, result)
                ELSE "None",
     error |-> IF ~success /\ storage.config.store_errors THEN error
               ELSE "None",
     execution_time |-> execution_time,
     timestamp |-> now,
     metadata |-> <<>>]

\* store_result: the storage after the call
store_result(storage, execution_result) ==
    [storage EXCEPT
        !.results =
            IF storage.config.track_history
            THEN Trimmed(Append(@, execution_result), storage.config)
            ELSE @,
        !.performance_metrics =
            IF storage.config.track_performance /\ execution_result.success
            THEN Storage_update_performance_metrics(
                     @, execution_result.function_name,
                     execution_result.execution_time)
            ELSE @]

\* dict.pop(function_name, None)
WithoutKey(metrics, function_name) ==
    [n \in DOMAIN metrics \ {function_name} |-> metrics[n]]

\* clear_results: the storage after the call; function_name "" stands for
\* the falsy values ("" and None)
clear_results(storage, function_name, clear_metrics) ==
    IF function_name # ""
    THEN [storage EXCEPT
             !.results =
                 SelectSeq(@, LAMBDA r : r.function_name # function_name),
             !.performance_metrics =
                 IF clear_metrics THEN WithoutKey(@, function_name) ELSE @]
    ELSE [storage EXCEPT
             !.results = <<>>,
             !.performance_metrics = IF clear_metrics THEN <<>> ELSE @]

(***************************************************************************)
(* SpecStorage: store_result and clear_results called on one               *)
(* ResultStorage, in any order.                                            *)
(***************************************************************************)
MaxStorageCalls == 3
FunctionNames == {"f", "g"}
ExecutionTimes == {1, 2}
HistoryLimits == {0, 1, 2}

InitStorage ==
    /\ call = NoCall /\ processed = NoRecord /\ outcome = "none"
    /\ args = <<>>
    /\ returned = <<>>
    /\ heap \in {ResultStorage(StorageConfig(track_history, max_history)) :
                    track_history \in BOOLEAN, max_history \in HistoryLimits}
    /\ threads = <<>>

StorageUnchanged == UNCHANGED <<call, processed, outcome, threads>>

\* store_result(function_name, result, execution_time, success, error);
\* the clock reads the number of the call
StoreResult ==
    /\ heap.kind = "result_storage"
    /\ Len(args) < MaxStorageCalls
    /\ \E function_name \in FunctionNames, success \in BOOLEAN,
          execution_time \in ExecutionTimes :
           With(ExecutionResult(heap, function_name, "ok", execution_time,
                                success, "boom", Len(args) + 1),
                LAMBDA execution_result :
                    /\ heap' = store_result(heap, execution_result)
                    /\ args' = Append(args,
                                      [op |-> "store_result",
                                       function_name |-> function_name])
                    /\ returned' = Append(returned, execution_result))
    /\ StorageUnchanged

\* clear_results(function_name, clear_metrics), which returns None
ClearResults ==
    /\ heap.kind = "result_storage"
    /\ Len(args) < MaxStorageCalls
    /\ \E function_name \in FunctionNames \cup {""}, clear_metrics \in BOOLEAN :
           /\ heap' = clear_results(heap, function_name, clear_metrics)
           /\ args' = Append(args, [op |-> "clear_results",
                                    function_name |-> function_name])
           /\ returned' = Append(returned, NoDict)
    /\ StorageUnchanged

NextStorage == StoreResult \/ ClearResults
SpecStorage == InitStorage /\ [][NextStorage]_vars

\* the results stored by the first k calls and not cleared by a later one
\* of them, in the order they were stored
RECURSIVE StoredNotCleared(_)
StoredNotCleared(k) ==
    IF k = 0 THEN <<>>
    ELSE IF args[k].op = "store_result"
         THEN Append(StoredNotCleared(k - 1), returned[k])
         ELSE IF args[k].function_name = "" THEN <<>>
         ELSE SelectSeq(StoredNotCleared(k - 1),
                        LAMBDA r : r.function_name # args[k].function_name)

\* s ends with t
EndsWith(s, t) ==
    Len(t) <= Len(s) /\ SubSeq(s, Len(s) - Len(t) + 1, Len(s)) = t

\* C30: after any sequence of store_result and clear_results calls on a
\* ResultStorage with track_history on and max_history = N >= 1, the
\* stored history holds at most N results, and they are the most recently
\* stored results (not cleared since) in the order they were stored: the
\* history is the end of the list of stored, uncleared results; it holds
\* the result of a store_result call right after it, and it is the last N
\* of that list as long as no results were cleared by name.
C30_HistoryBounded ==
    (/\ heap.kind = "result_storage"
     /\ heap.config.track_history
     /\ heap.config.max_history >= 1)
        => With(StoredNotCleared(Len(args)),
                LAMBDA stored :
                    /\ Len(heap.results) <= heap.config.max_history
                    /\ EndsWith(stored, heap.results)
                    /\ (Len(args) >= 1 /\ args[Len(args)].op = "store_result")
                           => /\ heap.results # <<>>
                              /\ heap.results[Len(heap.results)]
                                     = returned[Len(args)]
                    /\ (\A k \in 1..Len(args) :
                            args[k].op = "clear_results"
                                => args[k].function_name = "")
                           => Len(heap.results)
                                  = Min(Len(stored), heap.config.max_history))

\* a history of limit 1 that store_result trimmed to its newest result,
\* after which clear_results cleared the name of the older one
C30_Witness ==
    /\ heap.kind = "result_storage"
    /\ heap.config.track_history
    /\ heap.config.max_history = 1
    /\ Len(args) = 3
    /\ args[1].op = "store_result"
    /\ args[2].op = "store_result"
    /\ args[3].op = "clear_results"
    /\ args[3].function_name = args[1].function_name
    /\ args[2].function_name # args[1].function_name
    /\ heap.results = <<returned[2]>>

=============================================================================
